---------------------------- MODULE Spec2Model ----------------------------
(***************************************************************************)
(* A model of nautilus-age-extension.py: the rate limiter, the decryption  *)
(* run (standalone_decrypt), the encryption runs (standalone_encrypt,      *)
(* standalone_hsm) and the hardware passphrase generation.                 *)
(*                                                                         *)
(* Time is counted in ticks, TicksPerSecond ticks to the second, so that   *)
(* the clock (time.time(), a float) can stand strictly between two whole   *)
(* seconds.                                                                *)
(***************************************************************************)
EXTENDS Integers, Sequences, FiniteSets, TLC

\* ------------------------------------------------------------------------
\* Bounds of the model
\* ------------------------------------------------------------------------
TicksPerSecond == 2
\* how many times the clock advances in one behaviour
MaxTicks == 3
\* how many recorded failures one rate-limiter instance holds, over all paths
MaxRecords == 3
\* how many paths one decrypt run is given
MaxBatch == 2
\* how many decrypt runs are started
MaxRuns == 2
\* the most items one encryption run is given
MaxInputs == 2
\* the most words a passphrase is asked to have
MaxWords == 3
\* the most components a path given to validate_path has
MaxDepth == 2

\* ------------------------------------------------------------------------
\* Program constants
\* ------------------------------------------------------------------------
RATE_LIMIT_MAX_ATTEMPTS == 3
RATE_LIMIT_LOCKOUT_SECONDS == 30
RATE_LIMIT_WINDOW_SECONDS == 300

LockoutTicks == RATE_LIMIT_LOCKOUT_SECONDS * TicksPerSecond
WindowTicks == RATE_LIMIT_WINDOW_SECONDS * TicksPerSecond

\* The paths of encrypted files handed to the rate limiter and to decryption.
AgePaths == {"doc.age", "bundle.age", "evil.age", "abs.age", "late.age", "none.age",
             "out.age"}

\* The two paths the rate limiter is exercised on by itself.
RLTargets == {"doc.age", "bundle.age"}

\* The amounts by which the clock advances: the smallest step, just short of
\* the lockout, and the window less the lockout; their sums reach the lockout
\* and the window exactly, and one tick either side of each.
TickSteps == {1, LockoutTicks - 1, WindowTicks - LockoutTicks}

VARIABLES
    \* the clock
    now,              \* time.time(), in ticks
    ticks,            \* how many times the clock has advanced
    \* the rate limiter of one AgeEncryptionExtension instance
    failed_attempts,  \* ext._failed_attempts: path -> sequence of timestamps
    recorded,         \* history: path -> every failure recorded since the last clear
    rl_last,          \* history: the latest check_rate_limit call and its answer
    \* the disk
    disk,             \* path of an encrypted file -> what the file holds
    tmpfile,          \* the paths whose hidden temp sibling .<name>.tmp exists
    written,          \* what decryption has written into the output directory
    \* one run of standalone_decrypt
    pc,               \* where the run stands
    paths,            \* its argument
    i,                \* the index of file_path in the loop over paths
    password,         \* what ask_password returned
    success_count,
    fail_count,
    ui,               \* the dialogs and notifications shown by the run, in order
    exc,              \* the exception that escaped the run, if one did
    runs,             \* how many runs have been started
    \* history of the decrypt runs
    failLog,          \* path -> time of every failed decryption, over all runs
    started,          \* the paths the decryption tool was started on
    lockedStart,      \* the tool was started on a path that three recent failures lock
    extractStarted,   \* the paths whose plaintext tar -x was started on
    \* one run of standalone_encrypt or standalone_hsm
    e_pc,             \* where the run stands
    e_mode,           \* "soft" (standalone_encrypt) or "hsm" (standalone_hsm)
    e_paths,          \* its argument
    e_i,              \* the index of item_path in the loop that deletes originals
    e_password,       \* password / passphrase
    delete_originals,
    clean_metadata,
    notify_send,      \* whether notify-send is installed
    orig,             \* the disk: selected path -> what it holds
    temp_dir,         \* "None" or "set"
    stagingDir,       \* the disk: the staging directory exists
    staging,          \* the disk: name in the staging directory -> what it holds
    tar_path,         \* "None" or "set"
    tarFile,          \* the disk: the .tar.gz archive
    temp_encrypted,   \* the disk: the encrypted file inside the staging directory
    encrypted_path,   \* the final destination, once it is computed
    success,
    cleaned_count,
    e_ui,             \* the dialogs and notifications shown by the run, in order
    e_exc,            \* the exception being raised, "none" when there is none
    \* one call of generate_passphrase_from_hsm
    h_pc,             \* where the call stands
    h_module,         \* its argument module_path
    tmp_path,         \* "None" or "set"
    h_tmp,            \* the disk: the temporary file of the random bytes
    h_result,         \* what the call returned
    h_log,            \* the messages logged
    \* history of the encryption runs
    validated,        \* the originals validate_path was asked about and accepted
    \* one call of encrypt_file or decrypt_file
    inj_pc,           \* where the call stands
    inj_mode,         \* "encrypt" or "decrypt"
    inj_args,         \* its arguments input_path and password
    master_fd,        \* the variable: "None" or "set"
    slave_fd,         \* the variable: "None" or "set"
    masterOpen,       \* the descriptor of the controlling end is open
    slaveOpen,        \* the descriptor of the subordinate end is open in the parent
    process,          \* "None", or the child: "running", "reaped"
    output,           \* the disk: what is at output_path
    inj_exc,          \* the exception the call caught
    inj_result,       \* what the call returned
    argv,             \* the command line the child was started with
    inj_trace,        \* history: what the parent did after the spawn, in order
    \* the calls of pkcs11-tool
    toolRuns,         \* history: the module paths pkcs11-tool was started with
    tok_module,       \* the argument of the latest is_hsm_token_present call
    tok_result,       \* what that call returned
    tok_run,          \* history: how pkcs11-tool --list-slots ended in that call
    \* what comes before the encryption or decryption work of a run
    f_pc,             \* where the run stands
    f_kind,           \* "hsm", "soft" or "decrypt"
    f_module,         \* module_path, "" for None
    f_pin,            \* pin
    f_ui,             \* the error dialogs shown, in order
    f_confirmed,      \* the user has pressed one of the Encrypt buttons
    clipboard,        \* history: every write to the clipboard
    screen,           \* history: every secret put on screen
    \* two standalone_decrypt workers running at the same time
    c_pc,             \* where each worker stands
    c_file,           \* file_path of each worker, "" before it starts
    c_accepts,        \* whether age accepts the password the worker was given
    c_disk,           \* the temp files in the directory of the .age files
    c_final,          \* what was published for each .age file
    c_touched,        \* history: the temp paths each worker created or deleted
    c_exc,            \* the exception that ended each worker, "None" if none
    c_ui,             \* the error dialogs of each worker, in order
    \* one call of generate_passphrase
    g_pc,             \* where the call stands
    num_words,        \* its argument
    g_words,          \* words, the list being built
    g_result,         \* what it returned, as a sequence of characters
    \* one call of validate_path
    v_pc,             \* where the call stands
    v_path,           \* its argument
    v_target,         \* where the symbolic link lnk points to
    v_result,         \* what it returned
    listedOK,         \* history: the files whose tar -tzf exited 0 with every member accepted
    \* encryption jobs publishing into the directories of their inputs
    p_pc,             \* where each job stands
    p_paths,          \* paths of each job
    p_path,           \* encrypted_path of each job, once it is computed
    dest,             \* the disk: the files at the destination paths and who wrote each
    replaced,         \* history: the files a move has taken the place of
    missing,          \* history: the paths a "Source path does not exist" error named
    e_front,          \* history: how the dialogs before the encryption work ended
    asked,            \* history: how many times ask_password showed its prompt
    delivered,        \* history: the files of the run whose plaintext was delivered
    \* one call of clean_metadata
    cm_pc,            \* where the call stands
    cm_file_path,     \* its argument file_path
    cm_temp_path,     \* temp_path: "None" or "set"
    cm_files,         \* the disk: what each path the call may be given holds
    cm_temp,          \* the disk: the file mkstemp created
    cm_run,           \* history: how subprocess.run of mat2 ended
    cm_result,        \* what the call returned
    scrubs            \* history: staged name -> how each run of mat2 on it ended

clockVars == <<now, ticks>>
rlVars == <<failed_attempts, recorded, rl_last>>
diskVars == <<disk, tmpfile, written>>
runVars == <<pc, paths, i, password, success_count, fail_count, ui, exc, runs>>
histVars == <<failLog, started, lockedStart, extractStarted>>
decVars == <<diskVars, runVars, histVars>>

encVars == <<e_pc, e_mode, e_paths, e_i, e_password, delete_originals, clean_metadata,
             notify_send, orig, temp_dir, stagingDir, staging, tar_path, tarFile,
             temp_encrypted, encrypted_path, success, cleaned_count, e_ui, e_exc>>
hsmVars == <<h_pc, h_module, tmp_path, h_tmp, h_result, h_log>>

injVars == <<inj_pc, inj_mode, inj_args, master_fd, slave_fd, masterOpen, slaveOpen, process,
             output, inj_exc, inj_result, argv, inj_trace>>
tokVars == <<tok_module, tok_result, tok_run>>
frontVars == <<f_pc, f_kind, f_module, f_pin, f_ui, f_confirmed, clipboard, screen>>
concVars == <<c_pc, c_file, c_accepts, c_disk, c_final, c_touched, c_exc, c_ui>>
genVars == <<g_pc, num_words, g_words, g_result>>
pathVars == <<v_pc, v_path, v_target, v_result>>
listVars == <<listedOK>>
pubVars == <<p_pc, p_paths, p_path, dest, replaced>>
copyVars == <<missing>>
answerVars == <<e_front>>
batchVars == <<asked, delivered>>
cleanVars == <<cm_pc, cm_file_path, cm_temp_path, cm_files, cm_temp, cm_run, cm_result>>
scrubVars == <<scrubs>>
auxVars == <<validated, injVars, toolRuns, tokVars, frontVars, concVars, genVars, pathVars, listVars, pubVars, copyVars, answerVars, batchVars, cleanVars, scrubVars>>

\* the part of auxVars an action of one group leaves alone
otherThanValidated == <<injVars, toolRuns, tokVars, frontVars, concVars, genVars, pathVars, listVars, pubVars, copyVars, answerVars, batchVars, cleanVars, scrubVars>>
otherThanInj == <<validated, toolRuns, tokVars, frontVars, concVars, genVars, pathVars, listVars, pubVars, copyVars, answerVars, batchVars, cleanVars, scrubVars>>
otherThanTool == <<validated, injVars, tokVars, frontVars, concVars, genVars, pathVars, listVars, pubVars, copyVars, answerVars, batchVars, cleanVars, scrubVars>>
otherThanTok == <<validated, injVars, frontVars, concVars, genVars, pathVars, listVars, pubVars, copyVars, answerVars, batchVars, cleanVars, scrubVars>>
otherThanFront == <<validated, injVars, toolRuns, tokVars, concVars, genVars, pathVars, listVars, pubVars, copyVars, answerVars, batchVars, cleanVars, scrubVars>>
otherThanConc == <<validated, injVars, toolRuns, tokVars, frontVars, genVars, pathVars, listVars, pubVars, copyVars, answerVars, batchVars, cleanVars, scrubVars>>
otherThanGen == <<validated, injVars, toolRuns, tokVars, frontVars, concVars, pathVars, listVars, pubVars, copyVars, answerVars, batchVars, cleanVars, scrubVars>>
otherThanPath == <<validated, injVars, toolRuns, tokVars, frontVars, concVars, genVars, listVars, pubVars, copyVars, answerVars, batchVars, cleanVars, scrubVars>>
otherThanList == <<validated, injVars, toolRuns, tokVars, frontVars, concVars, genVars, pathVars, pubVars, copyVars, answerVars, batchVars, cleanVars, scrubVars>>
otherThanPub == <<validated, injVars, toolRuns, tokVars, frontVars, concVars, genVars, pathVars, listVars, copyVars, answerVars, batchVars, cleanVars, scrubVars>>
otherThanCopy == <<validated, injVars, toolRuns, tokVars, frontVars, concVars, genVars, pathVars, listVars, pubVars, answerVars, batchVars, cleanVars, scrubVars>>
otherThanAnswer == <<validated, injVars, toolRuns, tokVars, frontVars, concVars, genVars, pathVars, listVars, pubVars, copyVars, batchVars, cleanVars, scrubVars>>
otherThanBatch == <<validated, injVars, toolRuns, tokVars, frontVars, concVars, genVars, pathVars, listVars, pubVars, copyVars, answerVars, cleanVars, scrubVars>>
otherThanClean == <<validated, injVars, toolRuns, tokVars, frontVars, concVars, genVars, pathVars, listVars, pubVars, copyVars, answerVars, batchVars, scrubVars>>
otherThanScrub == <<validated, injVars, toolRuns, tokVars, frontVars, concVars, genVars, pathVars, listVars, pubVars, copyVars, answerVars, batchVars, cleanVars>>

vars == <<clockVars, rlVars, decVars, encVars, hsmVars, auxVars>>

\* ------------------------------------------------------------------------
\* RateLimiter (check_rate_limit, record_failed_attempt, clear_failed_attempts)
\* ------------------------------------------------------------------------

\* attempts[0]: what a check against the oldest attempt would read
FirstAttempt(attempts) == attempts[1]

\* attempts[-1]
LastAttempt(attempts) == attempts[Len(attempts)]

\* a window test that keeps an attempt exactly WINDOW seconds old
InWindowInclusive(t, at) == at - t <= WindowTicks

\* now - t < RATE_LIMIT_WINDOW_SECONDS
InWindow(t, at) == at - t < WindowTicks

\* attempts = [t for t in attempts if now - t < RATE_LIMIT_WINDOW_SECONDS]
CleanOld(attempts, at) == SelectSeq(attempts, LAMBDA t : InWindow(t, at))

\* wait_time = RATE_LIMIT_LOCKOUT_SECONDS - (now - last_attempt)
WaitTime(attempts, at) == LockoutTicks - (at - LastAttempt(attempts))

\* The result of check_rate_limit on a list of attempts at time `at`: the
\* cleaned list it stores back, its answer, and the wait it computed.
check_rate_limit(attempts, at) ==
    LET kept == CleanOld(attempts, at)
        full == Len(kept) >= RATE_LIMIT_MAX_ATTEMPTS
        wait_time == IF full THEN WaitTime(kept, at) ELSE 0
    IN  [attempts |-> kept,
         allowed  |-> ~(full /\ wait_time > 0),
         wait_time |-> wait_time,
         \* int(wait_time), the number shown in the dialog
         shown    |-> IF wait_time > 0 THEN wait_time \div TicksPerSecond ELSE 0]

NoCall == [called |-> FALSE]

RLInit ==
    /\ now = 0
    /\ ticks = 0
    /\ failed_attempts = [p \in AgePaths |-> << >>]
    /\ recorded = [p \in AgePaths |-> << >>]
    /\ rl_last = NoCall

\* The clock advances.
Tick ==
    /\ ticks < MaxTicks
    /\ \E d \in TickSteps : now' = now + d
    /\ ticks' = ticks + 1
    /\ UNCHANGED <<rlVars, decVars, encVars, hsmVars, auxVars>>

\* ext.check_rate_limit(p)
CheckRateLimit(p) ==
    LET r == check_rate_limit(failed_attempts[p], now)
    IN  /\ failed_attempts' = [failed_attempts EXCEPT ![p] = r.attempts]
        /\ rl_last' = [called |-> TRUE, target |-> p, at |-> now,
                       allowed |-> r.allowed, wait_time |-> r.wait_time,
                       shown |-> r.shown, recorded |-> recorded[p]]
        /\ UNCHANGED <<now, ticks, recorded, decVars, encVars, hsmVars, auxVars>>

\* the failures held over all paths
RECURSIVE TotalRecorded(_, _)
TotalRecorded(rec, ps) ==
    IF ps = {} THEN 0
    ELSE LET p == CHOOSE q \in ps : TRUE
         IN  Len(rec[p]) + TotalRecorded(rec, ps \ {p})

\* ext.record_failed_attempt(p)
RecordFailedAttempt(p) ==
    /\ TotalRecorded(recorded, AgePaths) < MaxRecords
    /\ failed_attempts' = [failed_attempts EXCEPT ![p] = Append(@, now)]
    /\ recorded' = [recorded EXCEPT ![p] = Append(@, now)]
    /\ UNCHANGED <<now, ticks, rl_last, decVars, encVars, hsmVars, auxVars>>

\* ext.clear_failed_attempts(p)
ClearFailedAttempts(p) ==
    /\ failed_attempts' = [failed_attempts EXCEPT ![p] = << >>]
    /\ recorded' = [recorded EXCEPT ![p] = << >>]
    /\ UNCHANGED <<now, ticks, rl_last, decVars, encVars, hsmVars, auxVars>>

RLNext ==
    \/ Tick
    \/ \E p \in RLTargets : CheckRateLimit(p)
    \/ \E p \in RLTargets : RecordFailedAttempt(p)
    \/ \E p \in RLTargets : ClearFailedAttempts(p)

\* ------------------------------------------------------------------------
\* Encrypted files and archives
\* ------------------------------------------------------------------------

\* A path inside an archive is a sequence of characters; the alphabet is
\* the separator, the dot and one letter.
P_dir == <<".", "/">>                            \* ./
P_a == <<".", "/", "a">>                         \* ./a
P_parent == <<".", ".", "/", "a">>               \* ../a
P_abs == <<"/", "a">>                            \* /a

\* the first two bytes of a gzip stream, 1f 8b
GzipMagic == <<31, 139>>
\* the first two bytes of a plaintext that is no gzip stream
TextMagic == <<37, 80>>

\* len(b'age-encryption.org/v1')
MarkerLen == 21
\* f.read(100)
HeaderBytes == 100

Passwords == {"P", "Q"}
NoPassword == "none"

\* A file that does not exist.
NoFile == [exists |-> FALSE]

\* the content of an archive member that is a directory
NoData == [id |-> 0, meta |-> FALSE]

\* An existing file: the offset at which the marker age-encryption.org/v1
\* starts (-1: nowhere), the passphrase it was encrypted with, the first two
\* bytes of its plaintext, the member paths of the plaintext when it is a tar
\* archive and the content of each member; whole is false for a file that
\* was only written in part.
AgeFile(markerAt, key, magic, members, data) ==
    [exists |-> TRUE, markerAt |-> markerAt, key |-> key,
     magic |-> magic, members |-> members, data |-> data, whole |-> TRUE]

\* members without content of interest
Plain(members) == [k \in 1..Len(members) |-> NoData]

\* The encrypted files on disk when the runs begin; out.age, the destination
\* of an encryption run, does not exist yet.
DiskInit ==
    [p \in AgePaths |->
        CASE p = "doc.age"    -> AgeFile(0, "P", TextMagic, << >>, << >>)
          [] p = "bundle.age" -> AgeFile(0, "P", GzipMagic, <<P_dir, P_a>>,
                                         Plain(<<P_dir, P_a>>))
          [] p = "evil.age"   -> AgeFile(0, "P", GzipMagic, <<P_dir, P_a, P_parent>>,
                                         Plain(<<P_dir, P_a, P_parent>>))
          [] p = "abs.age"    -> AgeFile(0, "Q", GzipMagic, <<P_abs>>, Plain(<<P_abs>>))
          [] p = "late.age"   -> AgeFile(HeaderBytes - MarkerLen + 1, "P", TextMagic,
                                         << >>, << >>)
          [] p = "none.age"   -> AgeFile(-1, "P", TextMagic, << >>, << >>)
          [] OTHER            -> NoFile]

\* a verification that searches the whole file for the marker
verify_whole_file(p) ==
    /\ disk[p].exists
    /\ disk[p].markerAt >= 0

\* verify_age_file: the marker lies within the first 100 bytes; a file that
\* cannot be opened is not valid.
verify_age_file(p) ==
    /\ disk[p].exists
    /\ disk[p].markerAt >= 0
    /\ disk[p].markerAt + MarkerLen <= HeaderBytes

\* member.startswith('/')
StartsWithSlash(member) == Len(member) >= 1 /\ member[1] = "/"

\* '..' in member
ContainsDotDot(member) ==
    \E k \in 1..(Len(member) - 1) : member[k] = "." /\ member[k + 1] = "."

\* the test of standalone_decrypt on one line of the listing
IsSuspicious(member) == StartsWithSlash(member) \/ ContainsDotDot(member)

\* the loop over list_result.stdout.splitlines(): some line raises ValueError
AnySuspicious(members) == \E k \in 1..Len(members) : IsSuspicious(members[k])

\* ------------------------------------------------------------------------
\* standalone_decrypt
\* ------------------------------------------------------------------------

\* The arguments a run over the paths S may be started with: one to MaxBatch
\* paths, repeats allowed.
Batches(S) == UNION {[1..n -> S] : n \in 1..MaxBatch}

\* the loop "for file_path in paths: if not ext.check_rate_limit(file_path):
\* return" from position k on: the attempts table it leaves, and whether
\* every path was allowed
RECURSIVE CheckAll(_, _, _, _)
CheckAll(fa, batch, k, at) ==
    IF k > Len(batch) THEN [fa |-> fa, allowed |-> TRUE]
    ELSE LET r == check_rate_limit(fa[batch[k]], at)
             fa2 == [fa EXCEPT ![batch[k]] = r.attempts]
         IN  IF r.allowed THEN CheckAll(fa2, batch, k + 1, at)
             ELSE [fa |-> fa2, allowed |-> FALSE]

\* a verification pass that finds nothing
NoInvalidFiles(batch) == {}

\* invalid_files: the positions of the paths that fail verify_age_file
InvalidFiles(batch) == {k \in 1..Len(batch) : ~verify_age_file(batch[k])}

\* Three failures of the path within the last 300 s, the latest of them less
\* than 30 s ago: the state in which no attempt is to be made.
LockedOut(log, at) ==
    LET recent == SelectSeq(log, LAMBDA t : at - t < WindowTicks)
    IN  /\ Len(recent) >= RATE_LIMIT_MAX_ATTEMPTS
        /\ at - recent[Len(recent)] < LockoutTicks

Report(kind, title) == [kind |-> kind, title |-> title]

DecIdle ==
    /\ disk = DiskInit
    /\ tmpfile = {}
    /\ written = {}
    /\ pc = "idle"
    /\ paths = << >>
    /\ i = 0
    /\ password = NoPassword
    /\ success_count = 0
    /\ fail_count = 0
    /\ ui = << >>
    /\ exc = "none"
    /\ runs = 0
    /\ failLog = [p \in AgePaths |-> << >>]
    /\ started = {}
    /\ lockedStart = FALSE
    /\ extractStarted = {}

\* standalone_decrypt up to its loop, on paths of S: a new extension object,
\* the rate-limit check of every path, the verification of every path, the
\* password prompt.
StartDecrypt(S) ==
    /\ \E batch \in Batches(S), pw \in Passwords \cup {NoPassword} :
        LET rl == CheckAll([p \in AgePaths |-> << >>], batch, 1, now)
            invalid == InvalidFiles(batch)
            prompted == rl.allowed /\ invalid = {}
        IN  /\ paths' = batch
            /\ failed_attempts' = rl.fa
            /\ password' = IF prompted THEN pw ELSE NoPassword
            /\ ui' = IF ~rl.allowed THEN <<Report("error", "Rate Limited")>>
                     ELSE IF invalid # {} THEN <<Report("error", "Invalid files")>>
                     ELSE << >>
            /\ pc' = IF prompted /\ pw # NoPassword THEN "loop" ELSE "done"
            /\ asked' = IF prompted THEN asked + 1 ELSE asked
            /\ delivered' = 0
    /\ i' = 1
    /\ success_count' = 0
    /\ fail_count' = 0
    /\ exc' = "none"
    /\ runs' = runs + 1
    /\ UNCHANGED <<encVars, hsmVars, otherThanBatch>>
    /\ UNCHANGED <<clockVars, recorded, rl_last, diskVars, histVars>>

\* The worker process of one decryption request.
DecryptRun ==
    /\ pc = "idle"
    /\ StartDecrypt(AgePaths)

\* A decryption request on files that were tried before: each request is a
\* new worker process.
DecryptAgain ==
    /\ pc \in {"idle", "done", "crashed"}
    /\ runs < MaxRuns
    /\ StartDecrypt(RLTargets)

\* Time passes between two requests.
TickBetweenRuns ==
    /\ pc \in {"done", "crashed"}
    /\ runs < MaxRuns
    /\ Tick

\* what follows the body of the loop: the next path, or the final report
AfterFile == IF i + 1 > Len(paths) THEN "report" ELSE "loop"

\* How one call of decrypt_file may end.  "spawn" is an OSError before the
\* tool runs (openpty or Popen), the others are ends of the tool itself.
DecryptOutcomes == {"ok", "nonzero", "timeout", "spawn"}

\* age -d exits 0 and writes its output: the file is an age file and the
\* passphrase is the one it was encrypted with.
CanDecrypt(p, pw) ==
    /\ disk[p].exists
    /\ disk[p].whole
    /\ disk[p].markerAt = 0
    /\ disk[p].key = pw

\* The body of the loop up to the archive test: decrypt_file into the hidden
\* temp file; on success the count, the clearing of the attempts and the read
\* of the magic bytes; on failure the count, the recorded attempt and the
\* removal of the temp file.
\*   out:   how decrypt_file ended
\*   left:  a failed decrypt_file left its output behind (its own removal failed)
\*   rm_ok: os.remove(temp_decrypted) in the failure branch succeeds
DecryptOne ==
    /\ pc = "loop"
    /\ LET file_path == paths[i] IN
       \E out \in DecryptOutcomes, left \in BOOLEAN, rm_ok \in BOOLEAN :
        /\ out = "ok" => CanDecrypt(file_path, password)
        /\ out = "ok" => (~left /\ rm_ok)
        /\ out = "spawn" => ~left
        /\ ~left => rm_ok
        /\ started' = IF out = "spawn" THEN started ELSE started \cup {file_path}
        /\ lockedStart' = (lockedStart \/
                            (out # "spawn" /\ LockedOut(failLog[file_path], now)))
        /\ IF out = "ok"
           THEN /\ success_count' = success_count + 1
                /\ failed_attempts' = [failed_attempts EXCEPT ![file_path] = << >>]
                /\ tmpfile' = tmpfile \cup {file_path}
                /\ pc' = IF disk[file_path].magic = GzipMagic THEN "list" ELSE "rename"
                /\ UNCHANGED <<fail_count, failLog, i, exc>>
           ELSE /\ fail_count' = fail_count + 1
                /\ failed_attempts' = [failed_attempts EXCEPT ![file_path] = Append(@, now)]
                /\ failLog' = [failLog EXCEPT ![file_path] = Append(@, now)]
                /\ UNCHANGED success_count
                /\ IF left /\ ~rm_ok
                   THEN /\ tmpfile' = tmpfile \cup {file_path}
                        /\ exc' = "OSError"
                        /\ pc' = "crashed"
                        /\ UNCHANGED i
                   ELSE /\ tmpfile' = tmpfile \ {file_path}
                        /\ pc' = AfterFile
                        /\ i' = IF AfterFile = "loop" THEN i + 1 ELSE i
                        /\ UNCHANGED exc
    /\ UNCHANGED <<encVars, hsmVars, auxVars>>
    /\ UNCHANGED <<clockVars, recorded, rl_last, disk, written, paths, password,
                   ui, runs, extractStarted>>

\* How tar -tzf may end.
ListOutcomes == {"ok", "nonzero", "timeout"}

\* tar -tzf temp_decrypted and the test of every listed member.  A timeout
\* raises TimeoutExpired and a suspicious member raises ValueError; neither
\* is caught by "except subprocess.CalledProcessError".  With a non-zero
\* exit no member is tested.
ListMembers ==
    /\ pc = "list"
    /\ \E lr \in ListOutcomes :
        /\ IF lr = "timeout"
           THEN pc' = "crashed" /\ exc' = "TimeoutExpired"
           ELSE IF lr = "ok" /\ AnySuspicious(disk[paths[i]].members)
           THEN pc' = "crashed" /\ exc' = "ValueError"
           ELSE pc' = "extract" /\ exc' = exc
        /\ listedOK' = IF lr = "ok" /\ ~AnySuspicious(disk[paths[i]].members)
                       THEN listedOK \cup {paths[i]} ELSE listedOK
    /\ UNCHANGED <<encVars, hsmVars, otherThanList>>
    /\ UNCHANGED <<clockVars, rlVars, diskVars, paths, i, password, success_count,
                   fail_count, ui, runs, histVars>>

\* the members tar -x has written when it stops after the first n
Extracted(p, n) == {<<p, disk[p].members[k], disk[p].data[k]>> : k \in 1..n}

\* tar -xzf temp_decrypted -C output_dir with check=True, then the removal of
\* the temp file; a non-zero exit is CalledProcessError, which removes the
\* temp file and shows "Extraction failed".  An OSError of either removal
\* escapes.
\*   n:     how many members were written before tar stopped
\*   ok:    tar exited 0
\*   rm_ok: os.remove(temp_decrypted) succeeds
ExtractArchive ==
    /\ pc = "extract"
    /\ LET file_path == paths[i] IN
       \E n \in 0..Len(disk[file_path].members), ok \in BOOLEAN, rm_ok \in BOOLEAN :
        /\ ok => n = Len(disk[file_path].members)
        /\ extractStarted' = extractStarted \cup {file_path}
        /\ written' = written \cup Extracted(file_path, n)
        /\ IF rm_ok
           THEN /\ tmpfile' = tmpfile \ {file_path}
                /\ ui' = IF ok THEN ui
                         ELSE Append(ui, Report("error", "Extraction failed"))
                /\ pc' = AfterFile
                /\ i' = IF AfterFile = "loop" THEN i + 1 ELSE i
                /\ UNCHANGED exc
           ELSE /\ pc' = "crashed"
                /\ exc' = "OSError"
                /\ UNCHANGED <<tmpfile, ui, i>>
        /\ delivered' = IF ok THEN delivered + 1 ELSE delivered
    /\ UNCHANGED <<encVars, hsmVars, asked, otherThanBatch>>
    /\ UNCHANGED <<clockVars, rlVars, disk, paths, password, success_count,
                   fail_count, runs, failLog, started, lockedStart>>

\* os.rename(temp_decrypted, final_path) of a plaintext that is no archive
RenameToFinal ==
    /\ pc = "rename"
    /\ \E ok \in BOOLEAN :
        IF ok
        THEN /\ tmpfile' = tmpfile \ {paths[i]}
             /\ written' = written \cup {<<paths[i], << >>, NoData>>}
             /\ delivered' = delivered + 1
             /\ pc' = AfterFile
             /\ i' = IF AfterFile = "loop" THEN i + 1 ELSE i
             /\ UNCHANGED exc
        ELSE /\ pc' = "crashed"
             /\ exc' = "OSError"
             /\ UNCHANGED <<tmpfile, written, i, delivered>>
    /\ UNCHANGED <<encVars, hsmVars, asked, otherThanBatch>>
    /\ UNCHANGED <<clockVars, rlVars, disk, paths, password, success_count,
                   fail_count, ui, runs, histVars>>

\* the two reports after the loop
ReportCounts ==
    /\ pc = "report"
    /\ ui' = ui \o (IF success_count > 0
                    THEN <<Report("notify", "Done")>> ELSE << >>)
                \o (IF fail_count > 0
                    THEN <<Report("error", "Failed")>> ELSE << >>)
    /\ pc' = "done"
    /\ UNCHANGED <<encVars, hsmVars, auxVars>>
    /\ UNCHANGED <<clockVars, rlVars, diskVars, paths, i, password, success_count,
                   fail_count, exc, runs, histVars>>

DecSteps ==
    \/ DecryptOne
    \/ ListMembers
    \/ ExtractArchive
    \/ RenameToFinal
    \/ ReportCounts

DecNext ==
    \/ DecryptRun
    \/ DecSteps

RetryNext ==
    \/ DecryptAgain
    \/ TickBetweenRuns
    \/ DecSteps

\* ------------------------------------------------------------------------
\* The files to encrypt, the staging directory and the archive built from it
\* ------------------------------------------------------------------------

\* A normalized absolute path: its directory and the characters of its last
\* component.
Source(dir, base) == [dir |-> dir, base |-> base]

U_a == Source("/home/u", <<"a">>)                   \* a file carrying metadata
U_b == Source("/home/u", <<"b">>)                   \* a directory holding one file f
V_a == Source("/home/v", <<"a">>)                   \* a file, same name, other directory
U_dots == Source("/home/u", <<"a", ".", ".", "a">>) \* a file named a..a
U_gone == Source("/home/u", <<"g">>)                \* a path that no longer exists
U_ro == Source("/home/u", <<"r">>)                  \* a read-only directory holding f

Sources == {U_a, U_b, V_a, U_dots, U_gone, U_ro}

\* os.path.basename and os.path.dirname of a normalized path
basename(p) == p.base
dirname(p) == p.dir

\* What a path holds: nothing, a file with its content, or a directory with
\* the content of the one file f inside it.  A content is an identity of the
\* bytes and whether they carry metadata that mat2 can strip.
NoEntry == [exists |-> FALSE]
FileEntry(id, meta) == [exists |-> TRUE, kind |-> "file", data |-> [id |-> id, meta |-> meta]]
DirEntry(id, meta) == [exists |-> TRUE, kind |-> "dir", data |-> [id |-> id, meta |-> meta]]
ReadOnlyDir(id, meta) ==
    [exists |-> TRUE, kind |-> "rodir", data |-> [id |-> id, meta |-> meta]]

\* The selected items when a run begins.
OrigInit ==
    [p \in Sources |->
        CASE p = U_a    -> FileEntry(1, TRUE)
          [] p = U_b    -> DirEntry(2, FALSE)
          [] p = V_a    -> FileEntry(3, FALSE)
          [] p = U_dots -> FileEntry(4, FALSE)
          [] p = U_ro   -> ReadOnlyDir(5, FALSE)
          [] OTHER      -> NoEntry]

\* the names an item can have inside the staging directory, in the order in
\* which tar stores them
Bases == <<basename(U_a), basename(U_dots), basename(U_b), basename(U_gone),
           basename(U_ro)>>
BaseSet == {Bases[k] : k \in 1..Len(Bases)}

\* The selections a run can be given: one to MaxInputs different paths.
Jobs ==
    {job \in UNION {[1..n -> Sources] : n \in 1..MaxInputs} :
        \A j, k \in 1..Len(job) : j # k => job[j] # job[k]}

\* cp -a -- item_path temp_dir/basename: the copy takes the place of whatever
\* the staging directory held under that name.
CopyInto(stg, entry, base) == [stg EXCEPT ![base] = entry]

\* the staging directory after the first n items of job were copied
RECURSIVE CopyAll(_, _, _, _)
CopyAll(stg, files, job, n) ==
    IF n = 0 THEN stg
    ELSE CopyInto(CopyAll(stg, files, job, n - 1), files[job[n]], basename(job[n]))

\* mat2 --inplace on a staged file: exit status 0 rewrites the file without
\* its metadata, any other outcome leaves the file as it was.
ScrubOutcomes == {"cleaned", "unsupported", "failed", "timeout"}
Mat2(entry, outcome) ==
    IF outcome = "cleaned" THEN [entry EXCEPT !.data.meta = FALSE] ELSE entry

\* a count of the files mat2 has rewritten
CountsOnlyRewritten(outcome) == outcome = "cleaned"

\* returncode in (0, 1) counts as cleaned
CountsAsCleaned(outcome) == outcome \in {"cleaned", "unsupported"}

\* the number of staged names in S whose mat2 outcome counts as cleaned
RECURSIVE CleanedCount(_, _)
CleanedCount(res, S) ==
    IF S = {} THEN 0
    ELSE LET b == CHOOSE x \in S : TRUE
         IN  (IF CountsAsCleaned(res[b]) THEN 1 ELSE 0) + CleanedCount(res, S \ {b})

\* tar -czf tar_path -C temp_dir . : the members of the archive with the
\* content of each, ./ first, then every staged item from the k-th name on.
RECURSIVE TarItems(_, _)
TarItems(stg, k) ==
    IF k > Len(Bases) THEN << >>
    ELSE LET b == Bases[k]
             e == stg[b]
             here == IF ~e.exists THEN << >>
                     ELSE IF e.kind = "file" THEN << <<P_dir \o b, e.data>> >>
                     ELSE << <<P_dir \o b \o <<"/">>, NoData>>,
                             <<P_dir \o b \o <<"/", "f">>, e.data>> >>
         IN  here \o TarItems(stg, k + 1)

TarOf(stg) ==
    LET items == << <<P_dir, NoData>> >> \o TarItems(stg, 1)
    IN  [exists |-> TRUE, whole |-> TRUE,
         members |-> [k \in 1..Len(items) |-> items[k][1]],
         data |-> [k \in 1..Len(items) |-> items[k][2]]]

\* the file mkstemp creates, and what tar leaves when it fails
EmptyTar == [exists |-> TRUE, whole |-> FALSE, members |-> << >>, data |-> << >>]

\* bundle_name: the name of the only item, or encrypted_bundle_ and the
\* second the clock shows
bundle_name(job, at) ==
    IF Len(job) = 1 THEN [prefix |-> basename(job[1]), timestamp |-> 0]
    ELSE [prefix |-> <<"encrypted_bundle_">>, timestamp |-> at \div TicksPerSecond]

\* os.path.join(output_dir, bundle_name + ".age")
NoPath == [set |-> FALSE]
EncryptedPath(job, at) ==
    [set |-> TRUE, dir |-> dirname(job[1]), name |-> bundle_name(job, at)]

\* age -p on the archive: the encrypted file holds the archive under the
\* passphrase, with the marker at its start.
Encrypted(tar, key) == AgeFile(0, key, GzipMagic, tar.members, tar.data)

\* a deletion that does not wait for the encrypted file
DeleteWhenAsked(ok, del) == del

\* a deletion after every successful encryption, asked for or not
DeleteAlways(ok, del) == ok

\* the condition under which the originals are deleted
DeleteGuard(ok, del) == ok /\ del

\* os.path.isfile and os.path.isdir
isfile(entry) == entry.exists /\ entry.kind = "file"
isdir(entry) == entry.exists /\ entry.kind \in {"dir", "rodir"}

\* shutil.rmtree of a tree: it cannot unlink the entries of a directory that
\* is not writable, and raises.
RmtreeFails(entries) == \E e \in entries : e.exists /\ e.kind = "rodir"

\* validate_path: an absolute path outside the system directories
dangerous_prefixes == {"/bin", "/sbin", "/usr", "/etc", "/var", "/boot", "/root"}
validate_path(p) == \A d \in dangerous_prefixes : p.dir # d

\* ------------------------------------------------------------------------
\* standalone_encrypt and standalone_hsm
\* ------------------------------------------------------------------------

EncIdle ==
    /\ e_pc = "idle"
    /\ e_mode = "none"
    /\ e_paths = << >>
    /\ e_i = 0
    /\ e_password = NoPassword
    /\ delete_originals = FALSE
    /\ clean_metadata = FALSE
    /\ notify_send = TRUE
    /\ orig = OrigInit
    /\ temp_dir = "None"
    /\ stagingDir = FALSE
    /\ staging = [b \in BaseSet |-> NoEntry]
    /\ tar_path = "None"
    /\ tarFile = NoFile
    /\ temp_encrypted = NoFile
    /\ encrypted_path = NoPath
    /\ success = FALSE
    /\ cleaned_count = 0
    /\ e_ui = << >>
    /\ e_exc = "none"

\* What happens before the try block: how the passphrase dialog (software) or
\* the token steps and the confirmation dialog (HSM) end.
\* The confirmation dialog ends with one of the two Encrypt buttons, with
\* Cancel, with no answer in 300 s, or zenity cannot be started.
Unconfirmed == {"cancel", "timeout", "no_dialog"}
SoftFront == Unconfirmed \cup {"keep", "delete"}
HsmFront == {"no_module", "no_token", "no_pin", "bad_pin", "no_random"}
                \cup Unconfirmed \cup {"keep", "delete"}

\* the error dialog each early return of standalone_hsm shows
FrontError(front) ==
    CASE front = "no_module" -> <<Report("error", "HSM Not Found")>>
      [] front = "no_token"  -> <<Report("error", "Token Not Connected")>>
      [] front = "bad_pin"   -> <<Report("error", "Invalid PIN")>>
      [] front = "no_random" -> <<Report("error", "HSM Error")>>
      [] OTHER               -> << >>

\* a run that goes on unless Cancel was pressed
GoesOnUnlessCancelled(front) == front \notin {"cancel"}

\* "if not password: return" and "if delete_originals is None: return": the
\* run goes on after one of the two Encrypt buttons only
GoesOn(front) == front \in {"keep", "delete"}

\* The run up to and including mkdtemp.
EncStart(mode, fronts) ==
    /\ e_pc = "idle"
    /\ \E job \in Jobs, front \in fronts, mat2 \in BOOLEAN, ns \in BOOLEAN :
        LET go == GoesOn(front)
        IN  /\ e_paths' = job
            /\ e_front' = front
            /\ e_mode' = mode
            /\ e_password' = IF ~go THEN NoPassword
                             ELSE IF mode = "soft" THEN "P" ELSE "Q"
            /\ delete_originals' = (front = "delete")
            /\ clean_metadata' = (go /\ mat2)
            /\ notify_send' = (go => ns)
            /\ e_ui' = FrontError(front)
            /\ e_pc' = IF go THEN "copy" ELSE "done"
            /\ temp_dir' = IF go THEN "set" ELSE "None"
            /\ stagingDir' = go
    /\ UNCHANGED <<e_i, orig, staging, tar_path, tarFile, temp_encrypted,
                   encrypted_path, success, cleaned_count, e_exc>>
    /\ UNCHANGED <<clockVars, rlVars, decVars, hsmVars, otherThanAnswer>>

standalone_encrypt == EncStart("soft", SoftFront)

standalone_hsm == EncStart("hsm", HsmFront)

\* The copy loop: the first n items are copied; the next one, if there is
\* one, is missing (FileNotFoundError) or makes cp fail (RuntimeError).
EncCopy ==
    /\ e_pc = "copy"
    /\ \E n \in 0..Len(e_paths) :
        /\ \A k \in 1..n : orig[e_paths[k]].exists
        /\ staging' = CopyAll(staging, orig, e_paths, n)
        /\ IF n = Len(e_paths)
           THEN e_pc' = "scrub" /\ e_exc' = "none"
           ELSE /\ e_pc' = "except"
                /\ e_exc' = IF orig[e_paths[n + 1]].exists THEN "RuntimeError"
                            ELSE "FileNotFoundError"
        /\ missing' = IF n < Len(e_paths) /\ ~orig[e_paths[n + 1]].exists
                      THEN missing \cup {e_paths[n + 1]} ELSE missing
    /\ UNCHANGED <<e_mode, e_paths, e_i, e_password, delete_originals,
                   clean_metadata, notify_send, orig, temp_dir, stagingDir,
                   tar_path, tarFile, temp_encrypted, encrypted_path, success,
                   cleaned_count, e_ui>>
    /\ UNCHANGED <<clockVars, rlVars, decVars, hsmVars, otherThanCopy>>

\* The metadata pass over every file below the staging directory.
EncScrub ==
    /\ e_pc = "scrub"
    /\ LET staged == {b \in BaseSet : staging[b].exists}
       IN  IF clean_metadata
           THEN \E res \in [staged -> ScrubOutcomes] :
                   /\ staging' = [b \in BaseSet |->
                                    IF b \in staged THEN Mat2(staging[b], res[b])
                                    ELSE staging[b]]
                   /\ cleaned_count' = CleanedCount(res, staged)
                   /\ scrubs' = [b \in BaseSet |->
                                   IF b \in staged THEN Append(scrubs[b], res[b])
                                   ELSE scrubs[b]]
           ELSE UNCHANGED <<staging, cleaned_count, scrubs>>
    /\ e_pc' = "tar"
    /\ UNCHANGED <<e_mode, e_paths, e_i, e_password, delete_originals,
                   clean_metadata, notify_send, orig, temp_dir, stagingDir,
                   tar_path, tarFile, temp_encrypted, encrypted_path, success,
                   e_ui, e_exc>>
    /\ UNCHANGED <<clockVars, rlVars, decVars, hsmVars, otherThanScrub>>

\* mkstemp and tar -czf.
EncTar ==
    /\ e_pc = "tar"
    /\ tar_path' = "set"
    /\ \E ok \in BOOLEAN :
        IF ok
        THEN tarFile' = TarOf(staging) /\ e_pc' = "encrypt" /\ e_exc' = "none"
        ELSE tarFile' = EmptyTar /\ e_pc' = "except" /\ e_exc' = "RuntimeError"
    /\ UNCHANGED <<e_mode, e_paths, e_i, e_password, delete_originals,
                   clean_metadata, notify_send, orig, temp_dir, stagingDir,
                   staging, temp_encrypted, encrypted_path, success,
                   cleaned_count, e_ui>>
    /\ UNCHANGED <<clockVars, rlVars, decVars, hsmVars, auxVars>>

\* encrypt_file into the staging directory, then the removal of the archive.
\* A timeout leaves what the tool had written; a non-zero exit removes it.
EncryptOutcomes == {"ok", "nonzero", "timeout", "spawn"}

EncEncrypt ==
    /\ e_pc = "encrypt"
    /\ \E out \in EncryptOutcomes, removed \in BOOLEAN :
        /\ success' = (out = "ok")
        /\ temp_encrypted' =
              CASE out = "ok"      -> Encrypted(tarFile, e_password)
                [] out = "timeout" -> [Encrypted(tarFile, e_password) EXCEPT !.whole = FALSE]
                [] OTHER           -> NoFile
        /\ IF removed
           THEN tarFile' = NoFile /\ tar_path' = "None"
                /\ e_pc' = "publish" /\ e_exc' = "none"
           ELSE UNCHANGED <<tarFile, tar_path>>
                /\ e_pc' = "except" /\ e_exc' = "OSError"
    /\ UNCHANGED <<e_mode, e_paths, e_i, e_password, delete_originals,
                   clean_metadata, notify_send, orig, temp_dir, stagingDir,
                   staging, encrypted_path, cleaned_count, e_ui>>
    /\ UNCHANGED <<clockVars, rlVars, decVars, hsmVars, auxVars>>

\* shutil.move of the encrypted file to encrypted_path: os.rename where it
\* can, otherwise a copy to the destination followed by the removal of the
\* source.  The staging directory is below the system temp directory, the
\* destination is the directory of the first item.
PublishOutcomes == {"renamed", "copying", "refused"}

EncPublish ==
    /\ e_pc = "publish"
    /\ IF ~success
       THEN /\ e_pc' = "delete"
            /\ UNCHANGED <<disk, temp_encrypted, encrypted_path, e_exc>>
       ELSE /\ encrypted_path' = EncryptedPath(e_paths, now)
            /\ \E out \in PublishOutcomes :
                CASE out = "renamed" ->
                       /\ disk' = [disk EXCEPT !["out.age"] = temp_encrypted]
                       /\ temp_encrypted' = NoFile
                       /\ e_pc' = "delete"
                       /\ e_exc' = "none"
                  [] out = "copying" ->
                       /\ disk' = [disk EXCEPT !["out.age"] =
                                      [temp_encrypted EXCEPT !.whole = FALSE]]
                       /\ e_pc' = "moving"
                       /\ UNCHANGED <<temp_encrypted, e_exc>>
                  [] OTHER ->
                       /\ e_pc' = "except"
                       /\ e_exc' = "OSError"
                       /\ UNCHANGED <<disk, temp_encrypted>>
    /\ e_i' = 1
    /\ UNCHANGED <<e_mode, e_paths, e_password, delete_originals,
                   clean_metadata, notify_send, orig, temp_dir, stagingDir,
                   staging, tar_path, tarFile, success, cleaned_count, e_ui>>
    /\ UNCHANGED <<clockVars, rlVars, tmpfile, written, runVars, histVars, hsmVars, auxVars>>

\* The copy of shutil.move under way: it ends, or the copy fails and leaves
\* what it had written, or the source cannot be removed after the copy.
CopyOutcomes == {"copied", "copy_failed", "unlink_failed"}

EncFinishMove ==
    /\ e_pc = "moving"
    /\ \E out \in CopyOutcomes :
        /\ disk' = IF out = "copy_failed" THEN disk
                   ELSE [disk EXCEPT !["out.age"] = temp_encrypted]
        /\ temp_encrypted' = IF out = "copied" THEN NoFile ELSE temp_encrypted
        /\ e_pc' = IF out = "copied" THEN "delete" ELSE "except"
        /\ e_exc' = IF out = "copied" THEN "none" ELSE "OSError"
    /\ UNCHANGED <<e_mode, e_paths, e_i, e_password, delete_originals,
                   clean_metadata, notify_send, orig, temp_dir, stagingDir,
                   staging, tar_path, tarFile, encrypted_path, success,
                   cleaned_count, e_ui>>
    /\ UNCHANGED <<clockVars, rlVars, tmpfile, written, runVars, histVars, hsmVars, auxVars>>

\* secure_delete of a file: shred removes it, or shred fails and os.remove
\* removes it, or both fail and the file stays, or shred is not installed
\* and FileNotFoundError leaves secure_delete.
ShredOutcomes == {"shredded", "removed", "kept", "no_shred"}

\* One iteration of the loop that deletes the originals, or its end.
EncDelete ==
    /\ e_pc = "delete"
    /\ IF ~DeleteGuard(success, delete_originals) \/ e_i > Len(e_paths)
       THEN e_pc' = "notify" /\ UNCHANGED <<orig, e_i, e_exc>>
       ELSE LET item_path == e_paths[e_i]
            IN  IF isfile(orig[item_path])
                THEN \E out \in ShredOutcomes :
                       /\ orig' = IF out \in {"shredded", "removed"}
                                  THEN [orig EXCEPT ![item_path] = NoEntry]
                                  ELSE orig
                       /\ e_i' = e_i + 1
                       /\ e_pc' = IF out = "no_shred" THEN "except" ELSE "delete"
                       /\ e_exc' = IF out = "no_shred" THEN "FileNotFoundError"
                                   ELSE "none"
                ELSE IF isdir(orig[item_path]) /\ validate_path(item_path)
                THEN IF RmtreeFails({orig[item_path]})
                     THEN e_pc' = "except" /\ e_exc' = "OSError"
                          /\ UNCHANGED <<orig, e_i>>
                     ELSE orig' = [orig EXCEPT ![item_path] = NoEntry]
                          /\ e_i' = e_i + 1
                          /\ UNCHANGED <<e_pc, e_exc>>
                ELSE e_i' = e_i + 1 /\ UNCHANGED <<orig, e_pc, e_exc>>
    /\ UNCHANGED <<e_mode, e_paths, e_password, delete_originals,
                   clean_metadata, notify_send, temp_dir, stagingDir, staging,
                   tar_path, tarFile, temp_encrypted, encrypted_path, success,
                   cleaned_count, e_ui>>
    /\ validated' = IF /\ DeleteGuard(success, delete_originals)
                       /\ e_i <= Len(e_paths)
                       /\ isdir(orig[e_paths[e_i]])
                       /\ validate_path(e_paths[e_i])
                    THEN validated \cup {e_paths[e_i]}
                    ELSE validated
    /\ UNCHANGED <<clockVars, rlVars, decVars, hsmVars, otherThanValidated>>

\* the title of a result notification of the software or the HSM run
Title(mode, text) == IF mode = "hsm" THEN "HSM " \o text ELSE text

\* a desktop notification of the run's result
Note(title, cleaned, deleted) ==
    [kind |-> "notify", title |-> title, cleaned |-> cleaned, deleted |-> deleted]

\* The result notification; Popen raises when notify-send is not installed.
EncNotify ==
    /\ e_pc = "notify"
    /\ IF notify_send
       THEN /\ e_ui' = Append(e_ui,
                  IF success
                  THEN Note(Title(e_mode, "Encryption Complete"),
                            clean_metadata /\ cleaned_count > 0, delete_originals)
                  ELSE Note(Title(e_mode, "Encryption Failed"), FALSE, FALSE))
            /\ e_pc' = "finally"
            /\ e_exc' = "none"
       ELSE /\ e_pc' = "except"
            /\ e_exc' = "FileNotFoundError"
            /\ UNCHANGED e_ui
    /\ UNCHANGED <<e_mode, e_paths, e_i, e_password, delete_originals,
                   clean_metadata, notify_send, orig, temp_dir, stagingDir,
                   staging, tar_path, tarFile, temp_encrypted, encrypted_path,
                   success, cleaned_count>>
    /\ UNCHANGED <<clockVars, rlVars, decVars, hsmVars, auxVars>>

\* except Exception: the failure is logged and notified; the Popen of the
\* handler raises in its turn when notify-send is not installed.
EncExcept ==
    /\ e_pc = "except"
    /\ IF notify_send
       THEN e_ui' = Append(e_ui, Note(Title(e_mode, "Encryption Failed"), FALSE, FALSE))
            /\ e_exc' = "none"
       ELSE e_exc' = "FileNotFoundError" /\ UNCHANGED e_ui
    /\ e_pc' = "finally"
    /\ UNCHANGED <<e_mode, e_paths, e_i, e_password, delete_originals,
                   clean_metadata, notify_send, orig, temp_dir, stagingDir,
                   staging, tar_path, tarFile, temp_encrypted, encrypted_path,
                   success, cleaned_count>>
    /\ UNCHANGED <<clockVars, rlVars, decVars, hsmVars, auxVars>>

\* finally: the archive and the staging directory are removed; an error of
\* either removal is passed over.
EncFinally ==
    /\ e_pc = "finally"
    /\ tarFile' = IF tar_path = "set" THEN NoFile ELSE tarFile
    /\ LET gone == temp_dir = "set"
                   /\ ~RmtreeFails({staging[b] : b \in BaseSet})
       IN  /\ stagingDir' = IF gone THEN FALSE ELSE stagingDir
           /\ staging' = IF gone THEN [b \in BaseSet |-> NoEntry] ELSE staging
           /\ temp_encrypted' = IF gone THEN NoFile ELSE temp_encrypted
    /\ e_pc' = IF e_exc = "none" THEN "done" ELSE "crashed"
    /\ UNCHANGED <<e_mode, e_paths, e_i, e_password, delete_originals,
                   clean_metadata, notify_send, orig, temp_dir, tar_path,
                   encrypted_path, success, cleaned_count, e_ui, e_exc>>
    /\ UNCHANGED <<clockVars, rlVars, decVars, hsmVars, auxVars>>

EncSteps ==
    \/ EncCopy
    \/ EncScrub
    \/ EncTar
    \/ EncEncrypt
    \/ EncPublish
    \/ EncFinishMove
    \/ EncDelete
    \/ EncNotify
    \/ EncExcept
    \/ EncFinally

EncNext ==
    \/ standalone_encrypt
    \/ standalone_hsm
    \/ EncSteps

\* ------------------------------------------------------------------------
\* generate_passphrase_from_hsm
\* ------------------------------------------------------------------------

PKCS11_MODULE_PATHS ==
    {"/usr/lib/libeToken.so", "/usr/lib64/libeToken.so",
     "/opt/eToken/lib/libeToken.so", "/usr/lib/x86_64-linux-gnu/libeToken.so",
     "/usr/lib/i386-linux-gnu/libeToken.so"}
PKCS11_RANDOM_BYTES == 256

\* the module paths a caller can pass: the known ones, one that is not, none
ModulePaths == PKCS11_MODULE_PATHS \cup {"/tmp/evil.so", ""}

\* a check that lets every non-empty path through
AnyModulePath(path) == path # ""

validate_pkcs11_module_path(path) == path # "" /\ path \in PKCS11_MODULE_PATHS

\* the temporary file: the number of bytes it holds and whether they are
\* the zero bytes of the cleanup
NoTmp == [exists |-> FALSE]
TmpFile(len, zeroed) == [exists |-> TRUE, len |-> len, zeroed |-> zeroed]

\* the length of urlsafe_b64encode(bytes).rstrip('=') for n bytes
B64Len(n) == 4 * ((n + 2) \div 3) - ((3 - (n % 3)) % 3)

\* what generate_passphrase_from_hsm returns
NoResult == [returned |-> FALSE]
ReturnNone == [returned |-> TRUE, passphrase |-> FALSE]
ReturnPassphrase(n) == [returned |-> TRUE, passphrase |-> TRUE, len |-> B64Len(n)]

HsmIdle ==
    /\ h_pc = "idle"
    /\ h_module = ""
    /\ tmp_path = "None"
    /\ h_tmp = NoTmp
    /\ h_result = NoResult
    /\ h_log = {}

\* The whitelist check and mkstemp of a call with module_path.
HsmBeginWith(module_path) ==
    /\ h_pc = "idle"
    /\ \E made \in BOOLEAN :
        /\ h_module' = module_path
        /\ IF ~validate_pkcs11_module_path(module_path)
           THEN /\ h_log' = h_log \cup {"Invalid PKCS#11 module path rejected"}
                /\ h_result' = ReturnNone
                /\ h_pc' = "returned"
                /\ UNCHANGED <<tmp_path, h_tmp>>
           ELSE IF made
           THEN /\ tmp_path' = "set"
                /\ h_tmp' = TmpFile(0, FALSE)
                /\ h_pc' = "tool"
                /\ UNCHANGED <<h_log, h_result>>
           ELSE /\ h_log' = h_log \cup {"HSM generation failed"}
                /\ h_result' = ReturnNone
                /\ h_pc' = "returned"
                /\ UNCHANGED <<tmp_path, h_tmp>>
    /\ UNCHANGED <<clockVars, rlVars, decVars, encVars, auxVars>>

\* A call of generate_passphrase_from_hsm with any module path.
HsmBegin == \E module_path \in ModulePaths : HsmBeginWith(module_path)

\* pkcs11-tool --generate-random 256 --output-file tmp_path, the wait for it
\* and the reading of the file: the tool cannot be started, exits non-zero,
\* runs out of time, or exits with zero and a file of some length.
ToolOutcomes == {"spawn", "nonzero", "timeout", "zero"}
ToolBytes == {0, 32, PKCS11_RANDOM_BYTES - 1, PKCS11_RANDOM_BYTES}

\* a check that takes every number of bytes
AnyLength(n) == TRUE

\* len(random_bytes) != PKCS11_RANDOM_BYTES, negated
ExpectedLength(n) == n = PKCS11_RANDOM_BYTES

HsmTool ==
    /\ h_pc = "tool"
    /\ \E out \in ToolOutcomes, n \in ToolBytes :
        /\ out = "spawn" => n = 0
        /\ h_tmp' = TmpFile(n, FALSE)
        /\ h_result' = IF out = "zero" /\ ExpectedLength(n)
                       THEN ReturnPassphrase(n) ELSE ReturnNone
        /\ h_log' = h_log \cup
              CASE out = "spawn"   -> {"HSM generation failed"}
                [] out = "nonzero" -> {"PKCS#11 operation failed (check PIN or token)"}
                [] out = "timeout" -> {"HSM timeout generating random"}
                [] OTHER -> IF ExpectedLength(n) THEN {}
                            ELSE {"HSM random generation failed (unexpected output)"}
    /\ h_pc' = "zero"
    /\ toolRuns' = toolRuns \cup {h_module}
    /\ UNCHANGED <<h_module, tmp_path>>
    /\ UNCHANGED <<clockVars, rlVars, decVars, encVars, otherThanTool>>

\* finally, first step: the file is overwritten with 256 zero bytes; an
\* OSError is passed over.
HsmZero ==
    /\ h_pc = "zero"
    /\ \E ok \in BOOLEAN :
        h_tmp' = IF ok THEN TmpFile(PKCS11_RANDOM_BYTES, TRUE) ELSE h_tmp
    /\ h_pc' = "shred"
    /\ UNCHANGED <<h_module, tmp_path, h_result, h_log>>
    /\ UNCHANGED <<clockVars, rlVars, decVars, encVars, auxVars>>

\* finally, second step: secure_delete, whose FileNotFoundError (shred not
\* installed) is passed over.
HsmSecureDelete ==
    /\ h_pc = "shred"
    /\ \E out \in ShredOutcomes :
        /\ h_tmp' = IF out \in {"shredded", "removed"} THEN NoTmp ELSE h_tmp
        /\ h_log' = h_log \cup
              CASE out = "removed" -> {"Secure delete error"}
                [] out = "kept"    -> {"Secure delete error", "Fallback delete also failed"}
                [] OTHER           -> {}
    /\ h_pc' = "final"
    /\ UNCHANGED <<h_module, tmp_path, h_result>>
    /\ UNCHANGED <<clockVars, rlVars, decVars, encVars, auxVars>>

\* a cleanup without the final fallback
NeverExists(tmp) == FALSE

\* the final fallback is tried when the file still exists
StillExists(tmp) == tmp.exists

\* finally, last step: os.remove if the file still exists.
HsmFinalRemove ==
    /\ h_pc = "final"
    /\ IF StillExists(h_tmp)
       THEN \E ok \in BOOLEAN :
               IF ok
               THEN h_tmp' = NoTmp
                    /\ h_log' = h_log \cup {"HSM temp file required fallback deletion"}
               ELSE h_log' = h_log \cup {"CRITICAL: Could not delete HSM temp file!"}
                    /\ UNCHANGED h_tmp
       ELSE UNCHANGED <<h_tmp, h_log>>
    /\ h_pc' = "returned"
    /\ UNCHANGED <<h_module, tmp_path, h_result>>
    /\ UNCHANGED <<clockVars, rlVars, decVars, encVars, auxVars>>

\* is_hsm_token_present: the whitelist check, then pkcs11-tool --list-slots,
\* whose output says whether a token is there; a timeout or a missing tool
\* counts as no token.
SlotRun(how, returncode, token_present, slot) ==
    [how |-> how, returncode |-> returncode, token_present |-> token_present,
     slot |-> slot]

\* no call of the tool
NoSlotRun(how) == SlotRun(how, -1, FALSE, FALSE)

\* How subprocess.run of the listing may end: the tool exits with a status
\* and an output in which b'token present' and b'slot' are found or not, or
\* it exceeds the 5 s (TimeoutExpired), or it cannot be started (OSError).
SlotOutcomes ==
    {SlotRun("exit", rc, t, sl) : rc \in {0, 1}, t \in BOOLEAN, sl \in BOOLEAN}
        \cup {NoSlotRun("timeout"), NoSlotRun("spawn")}

\* b'token present' in output or (result.returncode == 0 and b'slot' in output);
\* False from the except clause
TokenPresent(out) ==
    /\ out.how = "exit"
    /\ (out.token_present \/ (out.returncode = 0 /\ out.slot))

TokenCheck(module_path) ==
    /\ tok_module' = module_path
    /\ IF ~validate_pkcs11_module_path(module_path)
       THEN /\ tok_result' = "False"
            /\ tok_run' = NoSlotRun("rejected")
            /\ UNCHANGED toolRuns
       ELSE \E out \in SlotOutcomes :
               /\ tok_result' = IF TokenPresent(out) THEN "True" ELSE "False"
               /\ tok_run' = out
               /\ toolRuns' = IF out.how = "spawn" THEN toolRuns
                              ELSE toolRuns \cup {module_path}
    /\ UNCHANGED <<clockVars, rlVars, decVars, encVars, hsmVars, otherThanTok>>

\* One call of is_hsm_token_present with any module path, before or after
\* the call of generate_passphrase_from_hsm.
is_hsm_token_present ==
    /\ h_pc \in {"idle", "returned"}
    /\ tok_result = "unset"
    /\ \E module_path \in ModulePaths : TokenCheck(module_path)

HsmNext ==
    \/ is_hsm_token_present
    \/ HsmBegin
    \/ HsmTool
    \/ HsmZero
    \/ HsmSecureDelete
    \/ HsmFinalRemove

\* ------------------------------------------------------------------------
\* Encryption followed by decryption of what it published
\* ------------------------------------------------------------------------

\* A decryption request on the file an encryption run left at its destination.
DecryptPublished ==
    /\ pc = "idle"
    /\ e_pc \in {"done", "crashed"}
    /\ disk["out.age"].exists
    /\ StartDecrypt({"out.age"})

\* What an encryption run publishes is always an archive, so that the
\* decryption run never reaches the rename of a plain file.
RoundTripNext ==
    \/ standalone_encrypt
    \/ EncSteps
    \/ DecryptPublished
    \/ DecryptOne
    \/ ListMembers
    \/ ExtractArchive
    \/ ReportCounts

\* ------------------------------------------------------------------------
\* encrypt_file and decrypt_file: the password is given to age over a pty
\* ------------------------------------------------------------------------

\* the arguments of a call: the archive to encrypt, or an encrypted file to
\* decrypt, and the password
NoArgs == [input_path |-> "none", password |-> NoPassword]
InjArgs(mode) ==
    [input_path : IF mode = "encrypt" THEN {"archive.tar.gz"} ELSE AgePaths,
     password : Passwords]

\* age exits with 0: always when it encrypts, and when it decrypts a file
\* with the password the file was encrypted with
AgeAccepts(mode, args) ==
    IF mode = "encrypt" THEN TRUE ELSE CanDecrypt(args.input_path, args.password)

InjIdle ==
    /\ inj_pc = "idle"
    /\ inj_mode = "none"
    /\ inj_args = NoArgs
    /\ master_fd = "None"
    /\ slave_fd = "None"
    /\ masterOpen = FALSE
    /\ slaveOpen = FALSE
    /\ process = "None"
    /\ output = "absent"
    /\ inj_exc = "none"
    /\ inj_result = "unset"
    /\ argv = << >>
    /\ inj_trace = << >>

\* a handler that leaves the child alone
LeaveChild(proc) == proc

\* what the handler of TimeoutExpired does to the child: kill and wait
KillAndWait(proc) == IF proc = "None" THEN proc ELSE "reaped"

\* os.remove(output_path) where the code tries it: the file goes, or the
\* OSError of the removal is passed over and the file stays
AfterRemove(out, rm_ok) == IF rm_ok THEN "absent" ELSE out

\* whether the exception handlers of the call remove the output: those of
\* decrypt_file do, those of encrypt_file do not
HandlerRemoves(mode) == mode = "decrypt"

\* pty.openpty().
InjOpen(mode) ==
    /\ inj_pc = "idle"
    /\ inj_mode' = mode
    /\ \E args \in InjArgs(mode) : inj_args' = args
    /\ \E ok \in BOOLEAN :
        IF ok
        THEN /\ master_fd' = "set" /\ slave_fd' = "set"
             /\ masterOpen' = TRUE /\ slaveOpen' = TRUE
             /\ inj_pc' = "spawn"
             /\ UNCHANGED inj_exc
        ELSE /\ inj_exc' = "OSError"
             /\ inj_pc' = "handler"
             /\ UNCHANGED <<master_fd, slave_fd, masterOpen, slaveOpen>>
    /\ UNCHANGED <<process, output, inj_result>>
    /\ UNCHANGED <<argv, inj_trace>>
    /\ UNCHANGED <<clockVars, rlVars, decVars, encVars, hsmVars, otherThanInj>>

encrypt_file == InjOpen("encrypt")

decrypt_file == InjOpen("decrypt")

\* ['age', '-p' or '-d', '-o', output_path, input_path]
CommandLine(mode, args) ==
    <<"age", IF mode = "encrypt" THEN "-p" ELSE "-d", "-o", "output_path",
      args.input_path>>

\* subprocess.Popen(['age', ...], stdin=slave_fd): FileNotFoundError, an
\* OSError, when age is not installed.
InjSpawn ==
    /\ inj_pc = "spawn"
    /\ \E ok \in BOOLEAN :
        IF ok
        THEN /\ process' = "running"
             /\ argv' = CommandLine(inj_mode, inj_args)
             /\ inj_pc' = "close_slave"
             /\ UNCHANGED inj_exc
        ELSE /\ inj_exc' = "OSError"
             /\ inj_pc' = "handler"
             /\ UNCHANGED <<process, argv>>
    /\ UNCHANGED <<inj_mode, inj_args, master_fd, slave_fd, masterOpen, slaveOpen, output,
                   inj_result>>
    /\ UNCHANGED inj_trace
    /\ UNCHANGED <<clockVars, rlVars, decVars, encVars, hsmVars, otherThanInj>>

\* os.close(slave_fd); slave_fd = None.  The descriptor is released also
\* when close reports an error, but then the variable keeps its value.
InjCloseSlave ==
    /\ inj_pc = "close_slave"
    /\ slaveOpen' = FALSE
    /\ \E ok \in BOOLEAN :
        IF ok
        THEN /\ slave_fd' = "None"
             /\ inj_trace' = Append(inj_trace, "close_slave")
             /\ inj_pc' = "write"
             /\ UNCHANGED inj_exc
        ELSE /\ inj_exc' = "OSError"
             /\ inj_pc' = "handler"
             /\ UNCHANGED <<slave_fd, inj_trace>>
    /\ UNCHANGED <<inj_mode, inj_args, master_fd, masterOpen, process, output, inj_result>>
    /\ UNCHANGED argv
    /\ UNCHANGED <<clockVars, rlVars, decVars, encVars, hsmVars, otherThanInj>>

\* a parent that answers one prompt whatever the mode
OneWrite(mode) == 1

\* how many times the password is written: age -p asks twice, age -d once
Writes(mode) == IF mode = "encrypt" THEN 2 ELSE 1

\* time.sleep(0.1) and os.write(master_fd, password + newline) for each of
\* the first done writes, and the sleep before the write that raised when
\* not all of them were done
RECURSIVE SettleAndWrite(_, _)
SettleAndWrite(done, total) ==
    IF done = 0 THEN (IF total > 0 THEN <<"sleep">> ELSE << >>)
    ELSE <<"sleep", "write">> \o SettleAndWrite(done - 1, total - 1)

\* The writes of the password to master_fd, each after its pause; done of
\* them succeed and the next one, if there is one, raises OSError.
InjWrite ==
    /\ inj_pc = "write"
    /\ \E done \in 0..Writes(inj_mode) :
        /\ inj_trace' = inj_trace \o SettleAndWrite(done, Writes(inj_mode))
        /\ IF done = Writes(inj_mode)
           THEN inj_pc' = "wait" /\ UNCHANGED inj_exc
           ELSE inj_exc' = "OSError" /\ inj_pc' = "handler"
    /\ UNCHANGED <<inj_mode, inj_args, master_fd, slave_fd, masterOpen, slaveOpen, process,
                   output, inj_result, argv>>
    /\ UNCHANGED <<clockVars, rlVars, decVars, encVars, hsmVars, otherThanInj>>

\* process.communicate(timeout=120) and the test of its result.
\*   end:     the child exits with 0, exits with another status, or is still
\*            running after 120 s
\*   written: what the child has put at output_path by then
\*   rm_ok:   the removal of a failed output succeeds
WaitOutcomes == {"zero", "nonzero", "timeout"}
OutputStates == {"absent", "partial", "whole"}

InjWait ==
    /\ inj_pc = "wait"
    /\ \E end \in WaitOutcomes, out \in OutputStates, rm_ok \in BOOLEAN :
        /\ end = "zero" => AgeAccepts(inj_mode, inj_args) /\ out \in {"absent", "whole"}
        /\ end # "zero" => out \in {"absent", "partial"}
        /\ (end = "nonzero" /\ out = "partial") \/ rm_ok
        /\ CASE end = "timeout" ->
                  /\ output' = out
                  /\ inj_exc' = "TimeoutExpired"
                  /\ inj_pc' = "handler"
                  /\ UNCHANGED <<process, inj_result>>
             [] end = "zero" /\ out = "whole" ->
                  /\ output' = out
                  /\ process' = "reaped"
                  /\ inj_result' = "True"
                  /\ inj_pc' = "finally"
                  /\ UNCHANGED inj_exc
             [] OTHER ->
                  /\ output' = AfterRemove(out, rm_ok)
                  /\ process' = "reaped"
                  /\ inj_result' = "False"
                  /\ inj_pc' = "finally"
                  /\ UNCHANGED inj_exc
    /\ UNCHANGED <<inj_mode, inj_args, master_fd, slave_fd, masterOpen, slaveOpen>>
    /\ inj_trace' = Append(inj_trace, "communicate")
    /\ UNCHANGED argv
    /\ UNCHANGED <<clockVars, rlVars, decVars, encVars, hsmVars, otherThanInj>>

\* The except clauses: TimeoutExpired kills the child and waits for it; the
\* clauses of decrypt_file remove the output, those of encrypt_file do not.
InjHandler ==
    /\ inj_pc = "handler"
    /\ process' = IF inj_exc = "TimeoutExpired" THEN KillAndWait(process)
                  ELSE process
    /\ \E rm_ok \in BOOLEAN :
        /\ (output = "absent" \/ ~HandlerRemoves(inj_mode)) => rm_ok
        /\ output' = IF HandlerRemoves(inj_mode) THEN AfterRemove(output, rm_ok)
                     ELSE output
    /\ inj_result' = "False"
    /\ inj_pc' = "finally"
    /\ UNCHANGED <<inj_mode, inj_args, master_fd, slave_fd, masterOpen, slaveOpen, inj_exc>>
    /\ UNCHANGED <<argv, inj_trace>>
    /\ UNCHANGED <<clockVars, rlVars, decVars, encVars, hsmVars, otherThanInj>>

\* whether the finally block closes a descriptor
ToClose(fd) == fd # "None"

\* finally: both descriptors are closed when their variables are set; an
\* OSError of close is passed over.
InjFinally ==
    /\ inj_pc = "finally"
    /\ masterOpen' = IF ToClose(master_fd) THEN FALSE ELSE masterOpen
    /\ slaveOpen' = IF ToClose(slave_fd) THEN FALSE ELSE slaveOpen
    /\ inj_pc' = "returned"
    /\ UNCHANGED <<inj_mode, inj_args, master_fd, slave_fd, process, output, inj_exc,
                   inj_result>>
    /\ UNCHANGED <<argv, inj_trace>>
    /\ UNCHANGED <<clockVars, rlVars, decVars, encVars, hsmVars, otherThanInj>>

InjNext ==
    \/ encrypt_file
    \/ decrypt_file
    \/ InjSpawn
    \/ InjCloseSlave
    \/ InjWrite
    \/ InjWait
    \/ InjHandler
    \/ InjFinally

\* ------------------------------------------------------------------------
\* Before the encryption: the passphrase, its reveal and the confirmation
\* (standalone_hsm up to the try block, ask_password_method), and the
\* password prompt of standalone_decrypt
\* ------------------------------------------------------------------------

\* the order in which find_pkcs11_module looks for the module
ModuleOrder ==
    <<"/usr/lib/libeToken.so", "/usr/lib64/libeToken.so",
      "/opt/eToken/lib/libeToken.so", "/usr/lib/x86_64-linux-gnu/libeToken.so",
      "/usr/lib/i386-linux-gnu/libeToken.so">>

\* find_pkcs11_module: the first path of the list that exists, "" for None
RECURSIVE FirstInstalled(_, _)
FirstInstalled(installed, k) ==
    IF k > Len(ModuleOrder) THEN ""
    ELSE IF ModuleOrder[k] \in installed THEN ModuleOrder[k]
    ELSE FirstInstalled(installed, k + 1)

find_pkcs11_module(installed) == FirstInstalled(installed, 1)

\* A PIN as the user types it: its length and whether all its characters are
\* printable ASCII; NoPin is a dialog that was cancelled.
PinLengths == {0, 3, 4, 16, 17}
Pins == [len : PinLengths, printable : BOOLEAN]
NoPin == [len |-> -1, printable |-> TRUE]

\* a check that takes every PIN
AnyPin(pin) == TRUE

\* validate_hsm_pin: 4 to 16 printable characters
validate_hsm_pin(pin) == pin.len >= 4 /\ pin.len <= 16 /\ pin.printable

\* A write to the clipboard or a reveal on screen: which secret, and whether
\* the user had confirmed by then.
Reveal(secret, confirmed) == [secret |-> secret, confirmed |-> confirmed]

FrontIdle ==
    /\ f_pc = "idle"
    /\ f_kind = "none"
    /\ f_module = ""
    /\ f_pin = NoPin
    /\ f_ui = << >>
    /\ f_confirmed = FALSE
    /\ clipboard = << >>
    /\ screen = << >>

\* standalone_hsm, step 1: find_pkcs11_module.
FrontFind ==
    /\ f_pc = "idle"
    /\ f_kind' = "hsm"
    /\ \E installed \in SUBSET PKCS11_MODULE_PATHS :
        LET module_path == find_pkcs11_module(installed)
        IN  /\ f_module' = module_path
            /\ IF module_path = ""
               THEN f_ui' = Append(f_ui, Report("error", "HSM Not Found"))
                    /\ f_pc' = "done"
               ELSE f_pc' = "token" /\ UNCHANGED f_ui
    /\ UNCHANGED <<f_pin, f_confirmed, clipboard, screen>>
    /\ UNCHANGED <<clockVars, rlVars, decVars, encVars, hsmVars, otherThanFront>>

\* standalone_hsm, step 2: the call of is_hsm_token_present on the module
\* that was found.
FrontToken ==
    /\ f_pc = "token"
    /\ tok_result = "unset"
    /\ TokenCheck(f_module)

\* standalone_hsm, steps 2 to 3b: what is_hsm_token_present returned, then
\* ask_hsm_pin and validate_hsm_pin.
FrontPin ==
    /\ f_pc = "token"
    /\ tok_result # "unset"
    /\ IF tok_result = "False"
       THEN /\ f_ui' = Append(f_ui, Report("error", "Token Not Connected"))
            /\ f_pc' = "done"
            /\ UNCHANGED f_pin
       ELSE \E pin \in Pins \cup {NoPin} :
               /\ f_pin' = pin
               /\ IF pin = NoPin \/ pin.len = 0
                  THEN f_pc' = "done" /\ UNCHANGED f_ui
                  ELSE IF ~validate_hsm_pin(pin)
                  THEN f_ui' = Append(f_ui, Report("error", "Invalid PIN"))
                       /\ f_pc' = "done"
                  ELSE f_pc' = "generate" /\ UNCHANGED f_ui
    /\ UNCHANGED <<f_kind, f_module, f_confirmed, clipboard, screen>>
    /\ UNCHANGED <<clockVars, rlVars, decVars, encVars, hsmVars, otherThanFront>>

\* standalone_hsm, step 4: the call of generate_passphrase_from_hsm with the
\* module that was found.
FrontGenerate ==
    /\ f_pc = "generate"
    /\ HsmBeginWith(f_module)

\* standalone_hsm, after step 4: None is reported as "HSM Error".
FrontGenerated ==
    /\ f_pc = "generate"
    /\ h_pc = "returned"
    /\ IF h_result.passphrase
       THEN f_pc' = "reveal" /\ UNCHANGED f_ui
       ELSE f_ui' = Append(f_ui, Report("error", "HSM Error")) /\ f_pc' = "done"
    /\ UNCHANGED <<f_kind, f_module, f_pin, f_confirmed, clipboard, screen>>
    /\ UNCHANGED <<clockVars, rlVars, decVars, encVars, hsmVars, otherThanFront>>

\* ask_password_method: a passphrase is generated; the run goes on to its
\* reveal.
FrontSoft ==
    /\ f_pc = "idle"
    /\ f_kind' = "soft"
    /\ f_pc' = "reveal"
    /\ UNCHANGED <<f_module, f_pin, f_ui, f_confirmed, clipboard, screen>>
    /\ UNCHANGED <<clockVars, rlVars, decVars, encVars, hsmVars, otherThanFront>>

\* _ask_hsm_confirmation and ask_password_method: the passphrase is copied to
\* the clipboard (nothing is written when wl-copy fails) and the zenity
\* dialog that shows it is started.
\*   copied: wl-copy wrote the clipboard
\*   dialog: zenity was started
FrontReveal ==
    /\ f_pc = "reveal"
    /\ \E copied \in BOOLEAN, dialog \in BOOLEAN :
        /\ clipboard' = IF copied /\ (dialog \/ f_kind = "hsm")
                        THEN Append(clipboard, Reveal("generated", f_confirmed))
                        ELSE clipboard
        /\ screen' = IF dialog THEN Append(screen, Reveal("generated", f_confirmed))
                     ELSE screen
        /\ f_pc' = IF dialog THEN "answer" ELSE "done"
    /\ UNCHANGED <<f_kind, f_module, f_pin, f_ui, f_confirmed>>
    /\ UNCHANGED <<clockVars, rlVars, decVars, encVars, hsmVars, otherThanFront>>

\* The answer to the dialog: one of the two Encrypt buttons, Cancel, or no
\* answer within 300 s.
Answers == {"keep", "delete", "cancel", "timeout"}

FrontAnswer ==
    /\ f_pc = "answer"
    /\ \E answer \in Answers :
        /\ f_confirmed' = (answer \in {"keep", "delete"})
        /\ f_pc' = IF answer \in {"keep", "delete"} THEN "encrypt" ELSE "done"
    /\ UNCHANGED <<f_kind, f_module, f_pin, f_ui, clipboard, screen>>
    /\ UNCHANGED <<clockVars, rlVars, decVars, encVars, hsmVars, otherThanFront>>

\* standalone_decrypt: ask_password, zenity --password; what the user types
\* goes to no clipboard and is not displayed.
FrontDecryptPrompt ==
    /\ f_pc = "idle"
    /\ f_kind' = "decrypt"
    /\ \E typed \in BOOLEAN :
        f_pc' = IF typed THEN "decrypt" ELSE "done"
    /\ UNCHANGED <<f_module, f_pin, f_ui, f_confirmed, clipboard, screen>>
    /\ UNCHANGED <<clockVars, rlVars, decVars, encVars, hsmVars, otherThanFront>>

FrontNext ==
    \/ FrontFind
    \/ FrontToken
    \/ FrontPin
    \/ FrontGenerate
    \/ HsmTool
    \/ HsmZero
    \/ HsmSecureDelete
    \/ HsmFinalRemove
    \/ FrontGenerated
    \/ FrontSoft
    \/ FrontReveal
    \/ FrontAnswer
    \/ FrontDecryptPrompt

\* ------------------------------------------------------------------------
\* Two workers of standalone_decrypt at the same time: on_decrypt_files
\* starts a new process for every request and does not wait for it
\* ------------------------------------------------------------------------

Workers == {"first", "second"}

\* the .age files of one directory: an encrypted tar.gz and an encrypted
\* plain file
ConcFiles == {"tree.age", "note.age"}

\* magic == b'\x1f\x8b' for what the file decrypts to
is_gzip(file_path) == file_path = "tree.age"

\* temp_decrypted: ".<basename>.tmp" in the directory of the file
temp_decrypted(file_path) == <<".", file_path, ".tmp">>

TempPaths == {temp_decrypted(file_path) : file_path \in ConcFiles}

Absent == [exists |-> FALSE, writer |-> "nobody"]
WrittenBy(w) == [exists |-> TRUE, writer |-> w]

ConcIdle ==
    /\ c_pc = [w \in Workers |-> "idle"]
    /\ c_file = [w \in Workers |-> ""]
    /\ c_accepts = [w \in Workers |-> FALSE]
    /\ c_disk = [t \in TempPaths |-> Absent]
    /\ c_final = [file_path \in ConcFiles |-> Absent]
    /\ c_touched = [w \in Workers |-> {}]
    /\ c_exc = [w \in Workers |-> "None"]
    /\ c_ui = [w \in Workers |-> << >>]

\* the other groups of variables, which no worker step changes
ConcFrame == UNCHANGED <<clockVars, rlVars, decVars, encVars, hsmVars, otherThanConc>>

\* A worker is started on one valid .age file and the user types a password.
ConcStart(w) ==
    /\ c_pc[w] = "idle"
    /\ \E file_path \in ConcFiles, accepts \in BOOLEAN :
        /\ c_file' = [c_file EXCEPT ![w] = file_path]
        /\ c_accepts' = [c_accepts EXCEPT ![w] = accepts]
    /\ c_pc' = [c_pc EXCEPT ![w] = "decrypt"]
    /\ UNCHANGED <<c_disk, c_final, c_touched, c_exc, c_ui>>
    /\ ConcFrame

\* decrypt_file(file_path, temp_decrypted, password): age writes the temp
\* file; when age fails, decrypt_file removes the output file if there is one.
ConcDecrypt(w) ==
    /\ c_pc[w] = "decrypt"
    /\ LET t == temp_decrypted(c_file[w])
       IN  IF c_accepts[w]
           THEN /\ c_disk' = [c_disk EXCEPT ![t] = WrittenBy(w)]
                /\ c_touched' = [c_touched EXCEPT ![w] = @ \cup {t}]
                /\ c_pc' = [c_pc EXCEPT ![w] = "magic"]
           ELSE /\ c_disk' = [c_disk EXCEPT ![t] = Absent]
                /\ c_touched' = [c_touched EXCEPT ![w] =
                                    IF c_disk[t].exists THEN @ \cup {t} ELSE @]
                /\ c_pc' = [c_pc EXCEPT ![w] = "failed"]
    /\ UNCHANGED <<c_file, c_accepts, c_final, c_exc, c_ui>>
    /\ ConcFrame

\* decrypt_file returned False: the temp file is removed if it exists, and
\* the failure is reported.
ConcFailed(w) ==
    /\ c_pc[w] = "failed"
    /\ LET t == temp_decrypted(c_file[w])
       IN  /\ c_disk' = [c_disk EXCEPT ![t] = Absent]
           /\ c_touched' = [c_touched EXCEPT ![w] =
                               IF c_disk[t].exists THEN @ \cup {t} ELSE @]
    /\ c_ui' = [c_ui EXCEPT ![w] = Append(@, Report("error", "Error"))]
    /\ c_pc' = [c_pc EXCEPT ![w] = "done"]
    /\ UNCHANGED <<c_file, c_accepts, c_final, c_exc>>
    /\ ConcFrame

\* The two magic bytes of the temp file are read; a file that cannot be
\* opened counts as not gzip.
ConcMagic(w) ==
    /\ c_pc[w] = "magic"
    /\ LET t == temp_decrypted(c_file[w])
       IN  c_pc' = [c_pc EXCEPT ![w] =
                       IF c_disk[t].exists /\ is_gzip(c_file[w])
                       THEN "extract" ELSE "rename"]
    /\ UNCHANGED <<c_file, c_accepts, c_disk, c_final, c_touched, c_exc, c_ui>>
    /\ ConcFrame

\* tar -tzf and tar -xzf on the temp file: without the file tar -xzf fails,
\* CalledProcessError is caught and "Extraction failed" is shown.
ConcExtract(w) ==
    /\ c_pc[w] = "extract"
    /\ LET t == temp_decrypted(c_file[w])
       IN  IF c_disk[t].exists
           THEN /\ c_final' = [c_final EXCEPT ![c_file[w]] = WrittenBy(w)]
                /\ c_pc' = [c_pc EXCEPT ![w] = "remove"]
                /\ UNCHANGED c_ui
           ELSE /\ c_ui' = [c_ui EXCEPT ![w] = Append(@, Report("error", "Error"))]
                /\ c_pc' = [c_pc EXCEPT ![w] = "done"]
                /\ UNCHANGED c_final
    /\ UNCHANGED <<c_file, c_accepts, c_disk, c_touched, c_exc>>
    /\ ConcFrame

\* os.remove(temp_decrypted) after the extraction; FileNotFoundError is not
\* caught.
ConcRemove(w) ==
    /\ c_pc[w] = "remove"
    /\ LET t == temp_decrypted(c_file[w])
       IN  IF c_disk[t].exists
           THEN /\ c_disk' = [c_disk EXCEPT ![t] = Absent]
                /\ c_touched' = [c_touched EXCEPT ![w] = @ \cup {t}]
                /\ c_pc' = [c_pc EXCEPT ![w] = "done"]
                /\ UNCHANGED c_exc
           ELSE /\ c_exc' = [c_exc EXCEPT ![w] = "FileNotFoundError"]
                /\ c_pc' = [c_pc EXCEPT ![w] = "crashed"]
                /\ UNCHANGED <<c_disk, c_touched>>
    /\ UNCHANGED <<c_file, c_accepts, c_final, c_ui>>
    /\ ConcFrame

\* os.rename(temp_decrypted, final_path); FileNotFoundError is not caught.
ConcRename(w) ==
    /\ c_pc[w] = "rename"
    /\ LET t == temp_decrypted(c_file[w])
       IN  IF c_disk[t].exists
           THEN /\ c_final' = [c_final EXCEPT ![c_file[w]] = c_disk[t]]
                /\ c_disk' = [c_disk EXCEPT ![t] = Absent]
                /\ c_touched' = [c_touched EXCEPT ![w] = @ \cup {t}]
                /\ c_pc' = [c_pc EXCEPT ![w] = "done"]
                /\ UNCHANGED c_exc
           ELSE /\ c_exc' = [c_exc EXCEPT ![w] = "FileNotFoundError"]
                /\ c_pc' = [c_pc EXCEPT ![w] = "crashed"]
                /\ UNCHANGED <<c_disk, c_final, c_touched>>
    /\ UNCHANGED <<c_file, c_accepts, c_ui>>
    /\ ConcFrame

ConcNext ==
    \E w \in Workers :
        \/ ConcStart(w)
        \/ ConcDecrypt(w)
        \/ ConcFailed(w)
        \/ ConcMagic(w)
        \/ ConcExtract(w)
        \/ ConcRemove(w)
        \/ ConcRename(w)

\* ------------------------------------------------------------------------
\* generate_passphrase
\* ------------------------------------------------------------------------

\* Four of the 1239 words of the list, each a sequence of characters.  Every
\* word of the list is made of 4 to 6 lowercase letters.
PASSPHRASE_WORDLIST ==
    << <<"a", "c", "i", "d">>, <<"a", "b", "o", "u", "t">>,
       <<"y", "a", "c", "h", "t">>, <<"z", "o", "n", "e", "s">> >>

\* ''.join(words)
RECURSIVE concat(_)
concat(words) ==
    IF words = << >> THEN << >> ELSE Head(words) \o concat(Tail(words))

\* '-'.join(words)
RECURSIVE join(_)
join(words) ==
    IF words = << >> THEN << >>
    ELSE IF Len(words) = 1 THEN Head(words)
    ELSE Head(words) \o <<"-">> \o join(Tail(words))

GenIdle ==
    /\ g_pc = "idle"
    /\ num_words = 0
    /\ g_words = << >>
    /\ g_result = << >>

GenFrame == UNCHANGED <<clockVars, rlVars, decVars, encVars, hsmVars, otherThanGen>>

\* A call of generate_passphrase(num_words).
generate_passphrase ==
    /\ g_pc = "idle"
    /\ \E n \in 0..MaxWords : num_words' = n
    /\ g_pc' = "choose"
    /\ UNCHANGED <<g_words, g_result>>
    /\ GenFrame

\* secrets.choice(PASSPHRASE_WORDLIST), once for each of range(num_words)
GenChoice ==
    /\ g_pc = "choose"
    /\ Len(g_words) < num_words
    /\ \E k \in 1..Len(PASSPHRASE_WORDLIST) :
        g_words' = Append(g_words, PASSPHRASE_WORDLIST[k])
    /\ UNCHANGED <<g_pc, num_words, g_result>>
    /\ GenFrame

\* return '-'.join(words)
GenReturn ==
    /\ g_pc = "choose"
    /\ Len(g_words) = num_words
    /\ g_result' = join(g_words)
    /\ g_pc' = "returned"
    /\ UNCHANGED <<num_words, g_words>>
    /\ GenFrame

GenNext ==
    \/ generate_passphrase
    \/ GenChoice
    \/ GenReturn

\* ------------------------------------------------------------------------
\* validate_path
\* ------------------------------------------------------------------------

\* A path as it is written: absolute or relative, and its components, each
\* a sequence of characters.  lnk is a symbolic link wherever it occurs.
DotDot == <<".", ".">>
Lnk == <<"l", "n", "k">>
Components ==
    {<<"u", "s", "r">>, <<"u", "s", "r", "x">>, <<"e", "t", "c">>,
     <<"h", "o", "m", "e">>, DotDot, Lnk}

RawPaths ==
    [abs : BOOLEAN, parts : UNION {[1..n -> Components] : n \in 0..MaxDepth}]

\* the directories the symbolic link may point to, as resolved components
LinkTargets == {<< <<"u", "s", "r">> >>, << <<"h", "o", "m", "e">> >>}

\* os.path.isabs
isabs(path) == path.abs

\* os.path.realpath of an absolute path, component by component: .. drops
\* the last component (the parent of / is /), the symbolic link is replaced
\* by its target, any other name is kept.
RECURSIVE Resolve(_, _, _)
Resolve(parts, stack, target) ==
    IF parts = << >> THEN stack
    ELSE IF Head(parts) = DotDot
    THEN Resolve(Tail(parts),
                 IF stack = << >> THEN << >> ELSE SubSeq(stack, 1, Len(stack) - 1),
                 target)
    ELSE IF Head(parts) = Lnk THEN Resolve(Tail(parts), target, target)
    ELSE Resolve(Tail(parts), Append(stack, Head(parts)), target)

realpath(path, target) == Resolve(path.parts, << >>, target)

\* the resolved path as a string: / before every component, / alone for
\* the root
RECURSIVE Slashed(_)
Slashed(parts) ==
    IF parts = << >> THEN << >>
    ELSE <<"/">> \o Head(parts) \o Slashed(Tail(parts))

PathString(parts) == IF parts = << >> THEN <<"/">> ELSE Slashed(parts)

\* str.startswith
startswith(s, prefix) ==
    Len(s) >= Len(prefix) /\ SubSeq(s, 1, Len(prefix)) = prefix

\* dangerous_prefixes, character by character
DangerousPrefixes ==
    {<<"/", "b", "i", "n">>, <<"/", "s", "b", "i", "n">>, <<"/", "u", "s", "r">>,
     <<"/", "e", "t", "c">>, <<"/", "v", "a", "r">>, <<"/", "b", "o", "o", "t">>,
     <<"/", "r", "o", "o", "t">>}

\* a test that takes every string beginning with the prefix
BeginsWith(resolved, prefix) == startswith(resolved, prefix)

\* resolved.startswith(prefix + os.sep) or resolved == prefix
IsOrIsBelow(resolved, prefix) ==
    startswith(resolved, prefix \o <<"/">>) \/ resolved = prefix

\* validate_path on a path as it is written
ValidatePath(path, target) ==
    IF ~isabs(path) THEN FALSE
    ELSE LET parts == realpath(path, target)
             resolved == PathString(parts)
         IN  IF \E k \in 1..Len(parts) : parts[k] = DotDot THEN FALSE
             ELSE \A prefix \in DangerousPrefixes : ~IsOrIsBelow(resolved, prefix)

ValidateIdle ==
    /\ v_pc = "idle"
    /\ v_path = [abs |-> FALSE, parts |-> << >>]
    /\ v_target = << >>
    /\ v_result = FALSE

\* A call of validate_path.
ValidateCall ==
    /\ v_pc = "idle"
    /\ \E path \in RawPaths, target \in LinkTargets :
        /\ v_path' = path
        /\ v_target' = target
        /\ v_result' = ValidatePath(path, target)
    /\ v_pc' = "returned"
    /\ UNCHANGED <<clockVars, rlVars, decVars, encVars, hsmVars, otherThanPath>>

\* ------------------------------------------------------------------------
\* The publish step of encryption jobs that run one beside the other: every
\* request starts a new process, and the destination is a path in the
\* directory of the first input
\* ------------------------------------------------------------------------

\* the selections the jobs are given
Selections == {<<U_a>>, <<V_a>>, <<U_a, U_b>>, <<U_b, U_a>>}

\* a file at a destination path and the one who wrote it
Artifact(path, by) == [path |-> path, by |-> by]

\* the files found at a path
At(files, path) == {f \in files : f.path = path}

\* shutil.move(temp_encrypted, encrypted_path): os.rename, or the copy that
\* follows where rename cannot be used, puts the file at the path in the
\* place of what was there.
Move(files, path, by) == (files \ At(files, path)) \cup {Artifact(path, by)}

PubIdle ==
    /\ p_pc = [w \in Workers |-> "idle"]
    /\ p_paths = [w \in Workers |-> << >>]
    /\ p_path = [w \in Workers |-> NoPath]
    /\ dest = {}
    /\ replaced = {}

PubFrame == UNCHANGED <<rlVars, decVars, encVars, hsmVars, otherThanPub>>

\* A file is at the path <dirname>/<basename>.age of one of the inputs
\* before any job has started.
PubEarlier ==
    /\ \A w \in Workers : p_pc[w] = "idle"
    /\ dest = {}
    /\ \E job \in {s \in Selections : Len(s) = 1} :
          dest' = {Artifact(EncryptedPath(job, now), "earlier")}
    /\ UNCHANGED <<clockVars, p_pc, p_paths, p_path, replaced>>
    /\ PubFrame

\* A job up to the end of encrypt_file: the inputs are staged, bundle_name is
\* taken from the only input or from the clock, the archive is encrypted
\* into the job's own staging directory.
PubStage(w) ==
    /\ p_pc[w] = "idle"
    /\ \E job \in Selections :
        /\ p_paths' = [p_paths EXCEPT ![w] = job]
        /\ p_path' = [p_path EXCEPT ![w] = EncryptedPath(job, now)]
    /\ p_pc' = [p_pc EXCEPT ![w] = "staged"]
    /\ UNCHANGED <<clockVars, dest, replaced>>
    /\ PubFrame

\* if success: shutil.move(temp_encrypted, encrypted_path)
PubMove(w) ==
    /\ p_pc[w] = "staged"
    /\ dest' = Move(dest, p_path[w], w)
    /\ replaced' = replaced \cup At(dest, p_path[w])
    /\ p_pc' = [p_pc EXCEPT ![w] = "published"]
    /\ UNCHANGED <<clockVars, p_paths, p_path>>
    /\ PubFrame

\* Time passes between the steps of the jobs.
PubTick ==
    /\ \E w \in Workers : p_pc[w] # "published"
    /\ Tick

PubNext ==
    \/ PubEarlier
    \/ \E w \in Workers : PubStage(w)
    \/ \E w \in Workers : PubMove(w)
    \/ PubTick

\* ------------------------------------------------------------------------
\* clean_metadata
\* ------------------------------------------------------------------------

E_a == Source("/etc", <<"a">>)                          \* a file below /etc
U_jpg == Source("/home/u", <<"p", ".", "j", "p", "g">>) \* p.jpg, carrying metadata
U_txt == Source("/home/u", <<"n", ".", "t", "x", "t">>) \* n.txt, of no format mat2 knows
U_rc == Source("/home/u", <<".", "r", "c">>)            \* .rc, a name that begins with a dot

\* the paths clean_metadata is called with
CleanPaths == Sources \cup {E_a, U_jpg, U_txt, U_rc}

CleanDisk ==
    [p \in CleanPaths |->
        CASE p = E_a   -> FileEntry(6, TRUE)
          [] p = U_jpg -> FileEntry(7, TRUE)
          [] p = U_txt -> FileEntry(8, FALSE)
          [] p = U_rc  -> FileEntry(9, FALSE)
          [] OTHER     -> OrigInit[p]]

\* the position of the last dot of a name, 0 if it has none
RECURSIVE LastDot(_, _)
LastDot(name, k) ==
    IF k = 0 THEN 0
    ELSE IF name[k] = "." THEN k ELSE LastDot(name, k - 1)

\* the name has a character other than the dot before position k
NotOnlyDotsBefore(name, k) == \E j \in 1..(k - 1) : name[j] # "."

\* os.path.splitext(file_path)[1]: from the last dot of the last component
\* on, unless only dots come before it
splitext(p) ==
    LET name == basename(p)
        k == LastDot(name, Len(name))
    IN  IF k > 0 /\ NotOnlyDotsBefore(name, k) THEN SubSeq(name, k, Len(name))
        ELSE << >>

NoTemp == [exists |-> FALSE]
\* the file of mkstemp(suffix=ext, prefix='age_clean_') and what it holds
TempCopy(suffix, data) == [exists |-> TRUE, suffix |-> suffix, data |-> data]
EmptyData == [id |-> 0, meta |-> FALSE]

\* what clean_metadata returns: (temp_path, None) or (None, error)
CleanResult(path, error) == [path |-> path, error |-> error]

\* How subprocess.run(['mat2', '--inplace', ...], timeout=60) may end: an
\* exit status, TimeoutExpired, FileNotFoundError (no mat2), another OSError.
Mat2Run(how, returncode) == [how |-> how, returncode |-> returncode]
Mat2Runs ==
    {Mat2Run("exit", rc) : rc \in {0, 1, 2}}
        \cup {Mat2Run("timeout", -1), Mat2Run("missing", -1), Mat2Run("oserror", -1)}

\* a test that takes every exit status for a success
AnyReturncode(returncode) == TRUE

\* result.returncode in (0, 1)
CleanedOrUnsupported(returncode) == returncode \in {0, 1}

CleanIdle ==
    /\ cm_pc = "idle"
    /\ cm_file_path = NoPath
    /\ cm_temp_path = "None"
    /\ cm_files = CleanDisk
    /\ cm_temp = NoTemp
    /\ cm_run = Mat2Run("unset", -1)
    /\ cm_result = CleanResult("unset", "unset")

CleanFrame == UNCHANGED <<clockVars, rlVars, decVars, encVars, hsmVars, otherThanClean>>

\* the call and "if not self.validate_path(file_path)"
CleanValidate ==
    /\ cm_pc = "idle"
    /\ \E p \in CleanPaths :
        /\ cm_file_path' = [set |-> TRUE, path |-> p]
        /\ IF validate_path(p)
           THEN cm_pc' = "isfile" /\ UNCHANGED cm_result
           ELSE cm_pc' = "returned"
                /\ cm_result' = CleanResult("None", "Invalid file path")
    /\ UNCHANGED <<cm_temp_path, cm_files, cm_temp, cm_run>>
    /\ CleanFrame

\* "if not os.path.isfile(file_path)"
CleanIsFile ==
    /\ cm_pc = "isfile"
    /\ IF isfile(cm_files[cm_file_path.path])
       THEN cm_pc' = "mkstemp" /\ UNCHANGED cm_result
       ELSE cm_pc' = "returned" /\ cm_result' = CleanResult("None", "Not a file")
    /\ UNCHANGED <<cm_file_path, cm_temp_path, cm_files, cm_temp, cm_run>>
    /\ CleanFrame

\* splitext and mkstemp; an OSError of mkstemp leaves temp_path None
CleanMkstemp ==
    /\ cm_pc = "mkstemp"
    /\ \E made \in BOOLEAN :
        IF made
        THEN /\ cm_temp_path' = "set"
             /\ cm_temp' = TempCopy(splitext(cm_file_path.path), EmptyData)
             /\ cm_pc' = "copy"
        ELSE /\ cm_pc' = "handler"
             /\ UNCHANGED <<cm_temp_path, cm_temp>>
    /\ UNCHANGED <<cm_file_path, cm_files, cm_run, cm_result>>
    /\ CleanFrame

\* shutil.copy2(file_path, temp_path); an OSError stops it with the temp
\* file holding nothing of use
CleanCopy ==
    /\ cm_pc = "copy"
    /\ \E copied \in BOOLEAN :
        IF copied
        THEN /\ cm_temp' = [cm_temp EXCEPT !.data = cm_files[cm_file_path.path].data]
             /\ cm_pc' = "mat2"
        ELSE /\ cm_pc' = "handler"
             /\ UNCHANGED cm_temp
    /\ UNCHANGED <<cm_file_path, cm_temp_path, cm_files, cm_run, cm_result>>
    /\ CleanFrame

\* mat2 --inplace on temp_path and the test of its exit status: status 0
\* has rewritten the copy without its metadata; with a status that is
\* accepted the copy is returned, with another the copy is removed and the
\* error returned; an exception goes to its handler.
CleanMat2 ==
    /\ cm_pc = "mat2"
    /\ \E run \in Mat2Runs :
        /\ cm_run' = run
        /\ IF run.how # "exit"
           THEN cm_pc' = "handler" /\ UNCHANGED <<cm_temp, cm_result>>
           ELSE /\ cm_pc' = "returned"
                /\ IF CleanedOrUnsupported(run.returncode)
                   THEN /\ cm_temp' = IF run.returncode = 0
                                      THEN [cm_temp EXCEPT !.data.meta = FALSE]
                                      ELSE cm_temp
                        /\ cm_result' = CleanResult("temp_path", "None")
                   ELSE /\ cm_temp' = NoTemp
                        /\ cm_result' = CleanResult("None", "stderr")
    /\ UNCHANGED <<cm_file_path, cm_temp_path, cm_files>>
    /\ CleanFrame

\* the three except clauses: "if temp_path and os.path.exists(temp_path):
\* os.remove(temp_path)" and the return of the error; the file is one the
\* call has just created in the temp directory, and its removal succeeds
CleanHandler ==
    /\ cm_pc = "handler"
    /\ cm_temp' = IF cm_temp_path = "set" /\ cm_temp.exists THEN NoTemp ELSE cm_temp
    /\ cm_result' = CleanResult("None",
                        CASE cm_run.how = "timeout" -> "Timeout cleaning metadata"
                          [] cm_run.how = "missing" -> "mat2 not installed"
                          [] OTHER                  -> "str(e)")
    /\ cm_pc' = "returned"
    /\ UNCHANGED <<cm_file_path, cm_temp_path, cm_files, cm_run>>
    /\ CleanFrame

CleanNext ==
    \/ CleanValidate
    \/ CleanIsFile
    \/ CleanMkstemp
    \/ CleanCopy
    \/ CleanMat2
    \/ CleanHandler

\* ------------------------------------------------------------------------
\* History of the runs
\* ------------------------------------------------------------------------

\* Nothing has happened yet.
AuxIdle ==
    /\ validated = {}
    /\ InjIdle
    /\ toolRuns = {}
    /\ tok_module = ""
    /\ listedOK = {}
    /\ tok_result = "unset"
    /\ tok_run = NoSlotRun("unset")
    /\ FrontIdle
    /\ ConcIdle
    /\ GenIdle
    /\ ValidateIdle
    /\ PubIdle
    /\ missing = {}
    /\ e_front = "unset"
    /\ asked = 0
    /\ delivered = 0
    /\ CleanIdle
    /\ scrubs = [b \in BaseSet |-> << >>]

\* ------------------------------------------------------------------------
\* Specifications
\* ------------------------------------------------------------------------

\* The state after construction: the clock at zero, an empty rate limiter, the
\* encrypted files on disk, no run started.
Init ==
    /\ RLInit
    /\ DecIdle
    /\ EncIdle
    /\ HsmIdle
    /\ AuxIdle

\* One rate-limiter instance used through its three methods.
SpecRL == Init /\ [][RLNext]_vars

\* One run of standalone_decrypt, in its own worker process.
SpecDecrypt == Init /\ [][DecNext]_vars

\* Runs of standalone_decrypt on the same files, one after the other, each in
\* a new worker process, with time passing between them.
SpecRetry == Init /\ [][RetryNext]_vars

\* One run of standalone_encrypt or of standalone_hsm, in its own worker
\* process.
SpecEncrypt == Init /\ [][EncNext]_vars

\* One call of generate_passphrase_from_hsm.
SpecHSM == Init /\ [][HsmNext]_vars

\* One run up to its encryption or decryption work: standalone_hsm,
\* standalone_encrypt or standalone_decrypt.
SpecFront == Init /\ [][FrontNext]_vars

\* One call of encrypt_file or of decrypt_file.
SpecInject == Init /\ [][InjNext]_vars

\* Two requests to decrypt, each served by its own worker process.
SpecConcurrent == Init /\ [][ConcNext]_vars

\* One call of generate_passphrase.
SpecPassphrase == Init /\ [][GenNext]_vars

\* One call of validate_path.
SpecValidate == Init /\ [][ValidateCall]_vars

\* Two encryption jobs from staged to published, with time passing.
SpecPublish == Init /\ [][PubNext]_vars

\* One call of clean_metadata.
SpecClean == Init /\ [][CleanNext]_vars

\* One run of standalone_encrypt, then one run of standalone_decrypt on the
\* file it published.
SpecRoundTrip == Init /\ [][RoundTripNext]_vars

\* ------------------------------------------------------------------------
\* Claims about the rate limiter
\* ------------------------------------------------------------------------

\* how many of the failures in `rec` are less than the window old at `at`
RECURSIVE FreshCount(_, _)
FreshCount(rec, at) ==
    IF rec = << >> THEN 0
    ELSE (IF at - Head(rec) < WindowTicks THEN 1 ELSE 0) + FreshCount(Tail(rec), at)

\* the latest check followed at least three recorded failures of its target
CheckedAfterThree ==
    /\ rl_last.called
    /\ Len(rl_last.recorded) >= RATE_LIMIT_MAX_ATTEMPTS

\* the time between the latest recorded failure and the latest check
SinceLatestFailure == rl_last.at - rl_last.recorded[Len(rl_last.recorded)]

\* C2 as stated: after three consecutive record_failed_attempt calls,
\* check_rate_limit returns False at every time less than 30 s after the
\* latest recorded failure and True at every time 30 s or more after it.
C2_AsStated ==
    CheckedAfterThree =>
        (rl_last.allowed <=> SinceLatestFailure >= LockoutTicks)

\* C2 amended: after three consecutive record_failed_attempt calls,
\* check_rate_limit returns False at every time less than 30 s after the
\* latest recorded failure at which at least three recorded failures are less
\* than 300 s old, and True at every time 30 s or more after the latest.
C2_DeniedWhileThreeFresh ==
    CheckedAfterThree =>
        /\ (SinceLatestFailure >= LockoutTicks => rl_last.allowed)
        /\ (/\ SinceLatestFailure < LockoutTicks
            /\ FreshCount(rl_last.recorded, rl_last.at) >= RATE_LIMIT_MAX_ATTEMPTS
            => ~rl_last.allowed)

\* C2 witness: a check less than 30 s after the third failure was denied.
C2_Witness ==
    /\ CheckedAfterThree
    /\ SinceLatestFailure < LockoutTicks
    /\ SinceLatestFailure > 0
    /\ ~rl_last.allowed

\* ------------------------------------------------------------------------
\* Claims about standalone_decrypt
\* ------------------------------------------------------------------------

\* C1: once three failed decryption attempts of a file exist within the last
\* 300 s, the decryption tool is not started again on that file until 30 s
\* have passed since the latest failed attempt, across runs and within one.
C1_NoStartWhileLockedOut == ~lockedStart

\* the segments of a member path, split at the separator
RECURSIVE Segments(_)
Segments(member) ==
    IF \A k \in 1..Len(member) : member[k] # "/" THEN <<member>>
    ELSE LET cut == CHOOSE k \in 1..Len(member) :
                        /\ member[k] = "/"
                        /\ \A j \in 1..(k - 1) : member[j] # "/"
         IN  <<SubSeq(member, 1, cut - 1)>>
                 \o Segments(SubSeq(member, cut + 1, Len(member)))

\* the member path is absolute or has a parent-directory segment
UnsafeMember(member) ==
    \/ (Len(member) >= 1 /\ member[1] = "/")
    \/ \E k \in 1..Len(Segments(member)) : Segments(member)[k] = <<".", ".">>

UnsafeArchive(p) ==
    /\ disk[p].exists
    /\ \E k \in 1..Len(disk[p].members) : UnsafeMember(disk[p].members[k])

\* C3: when a decrypted archive holds a member whose path is absolute or has
\* a parent-directory segment, extraction is never started on it and nothing
\* of it is written into the destination directory.
C3_UnsafeArchiveNeverExtracted ==
    \A p \in AgePaths :
        UnsafeArchive(p) =>
            /\ p \notin extractStarted
            /\ \A w \in written : w[1] # p

\* the first 100 bytes of the file hold the marker age-encryption.org/v1
MarkerInHeader(p) ==
    /\ disk[p].exists
    /\ disk[p].markerAt \in 0..(HeaderBytes - MarkerLen)

ShownInvalid == ui = <<Report("error", "Invalid files")>>

\* C4: for a file whose first 100 bytes do not hold the marker the
\* decryption tool is never started and no failed attempt is recorded, and
\* a run given such a file ends with the report "Invalid files".
C4_InvalidFileNeverDecrypted ==
    \A p \in AgePaths :
        ~MarkerInHeader(p) =>
            /\ p \notin started
            /\ failed_attempts[p] = << >>
            /\ failLog[p] = << >>
            /\ (\E k \in 1..Len(paths) : paths[k] = p) =>
                    /\ pc \in {"done"}
                    /\ ShownInvalid

\* C4 witness: a run given a file whose marker starts beyond the first 100
\* bytes has ended with the report "Invalid files".
C4_Witness ==
    /\ pc = "done"
    /\ ShownInvalid
    /\ \E k \in 1..Len(paths) :
        /\ disk[paths[k]].markerAt > HeaderBytes - MarkerLen
        /\ paths[k] \notin started

\* C10 (decryption): no exception escapes standalone_decrypt.
C10_NoExceptionEscapes == pc # "crashed"

\* ------------------------------------------------------------------------
\* Claims about the encryption runs
\* ------------------------------------------------------------------------

\* an original the run found on disk and that is there no more
Deleted(p) == OrigInit[p].exists /\ ~orig[p].exists

\* the move to the final destination has returned: the whole encrypted file
\* is at the destination and no longer in the staging directory
Published ==
    /\ encrypted_path.set
    /\ disk["out.age"].exists
    /\ disk["out.age"].whole
    /\ ~temp_encrypted.exists

\* C5: in a software or HSM encryption run every original keeps its content
\* as long as it exists, and an original is deleted only if the deletion was
\* requested, encryption succeeded and the encrypted file has been published
\* at its final destination.
C5_OriginalsDeletedOnlyAfterPublish ==
    \A p \in Sources :
        /\ orig[p].exists => orig[p] = OrigInit[p]
        /\ Deleted(p) => delete_originals /\ success /\ Published

\* C5, its case: an original has been deleted by a run.
C5_Witness == \E p \in Sources : e_mode \in {"soft", "hsm"} /\ Deleted(p)

\* C6: in no state of an encryption run does the final destination hold a
\* partial encrypted file.
C6_NoPartialArtifactAtDestination ==
    disk["out.age"].exists => disk["out.age"].whole

\* C7: once an encryption run has ended, with or without a failure, neither
\* the staging directory nor the .tar.gz archive is on disk.
C7_NothingLeftAfterRun ==
    e_pc \in {"done", "crashed"} => ~stagingDir /\ ~tarFile.exists

\* ------------------------------------------------------------------------
\* Claims about generate_passphrase_from_hsm
\* ------------------------------------------------------------------------

CriticalLogged == "CRITICAL: Could not delete HSM temp file!" \in h_log

\* C8 as stated: once generate_passphrase_from_hsm has returned, the
\* temporary file of the random bytes does not exist.
C8_AsStated == h_pc = "returned" => ~h_tmp.exists

\* C8: once generate_passphrase_from_hsm has returned, the temporary file of
\* the random bytes does not exist, or the failure to delete it has been
\* logged as critical.
C8_TempFileGoneOrEscalated ==
    h_pc = "returned" /\ h_tmp.exists => CriticalLogged

\* C8, its case: the call created the file, shred did not remove it, and the
\* call returned after the final forced removal.
C8_Witness ==
    /\ h_pc = "returned"
    /\ tmp_path = "set"
    /\ "HSM temp file required fallback deletion" \in h_log
    /\ ~h_tmp.exists

\* ------------------------------------------------------------------------
\* Claims about the round trip
\* ------------------------------------------------------------------------

\* the archive member that holds the content of an original, and that content
Expected(p) ==
    IF isfile(OrigInit[p]) THEN <<P_dir \o basename(p), OrigInit[p].data>>
    ELSE <<P_dir \o basename(p) \o <<"/", "f">>, OrigInit[p].data>>

\* an encryption run published its file, and a decryption run with the same
\* passphrase decrypted and extracted it and reported success only
RoundTripDone ==
    /\ e_pc = "done"
    /\ Published
    /\ pc = "done"
    /\ paths = <<"out.age">>
    /\ password = e_password
    /\ ui = <<Report("notify", "Done")>>

\* C9: after encryption and then decryption with the same passphrase, every
\* original is written back under its name with the content it had.
C9_RoundTripIdentical ==
    RoundTripDone =>
        \A k \in 1..Len(e_paths) :
            <<"out.age", Expected(e_paths[k])[1], Expected(e_paths[k])[2]>> \in written

\* ------------------------------------------------------------------------
\* Claims about the failures of extraction and about path validation
\* ------------------------------------------------------------------------

\* the run stopped at the validation of the archive of paths[i]: a suspicious
\* member, or a listing that ran out of time
ValidationFailed == pc = "crashed" /\ exc \in {"ValueError", "TimeoutExpired"}

\* C11: when the validation of a decrypted archive fails, the hidden temp
\* file with the decrypted plaintext does not stay on disk and the failure is
\* shown to the user.
C11_TempDeletedWhenValidationFails ==
    ValidationFailed =>
        /\ paths[i] \notin tmpfile
        /\ \E k \in 1..Len(ui) : ui[k].kind = "error"

\* standalone_decrypt asks validate_path about no path: no extraction
\* destination is ever validated
ExtractionValidated(p) == FALSE

\* C12: every original that was deleted had been accepted by validate_path,
\* and so had the destination of every extraction that was started.
C12_ValidatedBeforeDeleteAndExtract ==
    /\ \A p \in Sources : Deleted(p) => p \in validated
    /\ \A p \in extractStarted : ExtractionValidated(p)

\* ------------------------------------------------------------------------
\* Claims about encrypt_file and decrypt_file
\* ------------------------------------------------------------------------

\* C13: when encrypt_file or decrypt_file has returned False, no file is at
\* the output path of the call.
C13_NoOutputAfterFailure ==
    inj_pc = "returned" /\ inj_result = "False" => output = "absent"

\* C14: when encrypt_file or decrypt_file has returned, on whatever path, both
\* pty descriptors are closed, and if the wait ran out of time the child has
\* been killed and waited for.
C14_DescriptorsClosedChildReaped ==
    inj_pc = "returned" =>
        /\ ~masterOpen
        /\ ~slaveOpen
        /\ inj_exc = "TimeoutExpired" => process = "reaped"

\* C14, its case: the call opened the pty, started the child, ran out of time
\* and returned.
C14_Witness ==
    /\ inj_pc = "returned"
    /\ inj_exc = "TimeoutExpired"
    /\ master_fd = "set"
    /\ process = "reaped"

\* ------------------------------------------------------------------------
\* Claims about the module allow-list and the HSM passphrase
\* ------------------------------------------------------------------------

\* C15: pkcs11-tool is started only with a module path of
\* PKCS11_MODULE_PATHS; with any other path is_hsm_token_present returns
\* False, and generate_passphrase_from_hsm returns None and creates no temp
\* file.
C15_OnlyListedModulesUsed ==
    /\ toolRuns \subseteq PKCS11_MODULE_PATHS
    /\ (tok_result # "unset" /\ tok_module \notin PKCS11_MODULE_PATHS)
          => tok_result = "False"
    /\ (h_pc # "idle" /\ h_module \notin PKCS11_MODULE_PATHS)
          => h_pc = "returned" /\ h_result = ReturnNone /\ tmp_path = "None"
                /\ ~h_tmp.exists

\* C15, its case: both functions were called with a path outside the list
\* and have returned.
C15_Witness ==
    /\ tok_module = "/tmp/evil.so"
    /\ tok_result = "False"
    /\ h_module = "/tmp/evil.so"
    /\ h_pc = "returned"

\* ------------------------------------------------------------------------
\* Claims about the steps before the encryption
\* ------------------------------------------------------------------------

\* a PIN of 4 to 16 printable characters
PinWellFormed(pin) == pin.len \in 4..16 /\ pin.printable

\* generate_passphrase_from_hsm has been called
ExtractionStarted == h_pc # "idle"

\* the HSM passphrase has been put on the clipboard or on screen, or the run
\* has gone on to encrypt with it
PassphraseOut ==
    f_pc \in {"answer", "encrypt"} \/ clipboard # << >> \/ screen # << >>

\* the stages of an HSM run up to the random extraction are in order
ExtractionInOrder ==
    ExtractionStarted =>
        /\ f_module \in PKCS11_MODULE_PATHS
        /\ tok_module = f_module
        /\ tok_result = "True"
        /\ PinWellFormed(f_pin)

\* C16 as stated: in an HSM run the random extraction starts only after a
\* module was found, the token was reported present and the PIN passed
\* validation, and the temp file is gone before the passphrase is revealed
\* or used.
C16_AsStated ==
    f_kind = "hsm" =>
        /\ ExtractionInOrder
        /\ PassphraseOut =>
              h_pc = "returned" /\ h_result.passphrase /\ ~h_tmp.exists

\* C16: in an HSM run the random extraction starts only after a module was
\* found, the token was reported present and the PIN passed validation, and
\* before the passphrase is revealed or used the erasure of the temp file
\* has run: the file is gone, or the failure to delete it is logged as
\* critical.
C16_StagesInOrder ==
    f_kind = "hsm" =>
        /\ ExtractionInOrder
        /\ PassphraseOut =>
              /\ h_pc = "returned"
              /\ h_result.passphrase
              /\ ~h_tmp.exists \/ CriticalLogged

\* C16, its case: an HSM run went through all its stages and on to the
\* encryption.
C16_Witness ==
    /\ f_kind = "hsm"
    /\ f_pc = "encrypt"
    /\ h_module \in toolRuns
    /\ ~h_tmp.exists

\* C17: every error an HSM run shows to the user is the same generic
\* "HSM Error", whatever failed.
C17_OneGenericHsmError ==
    \A k \in 1..Len(f_ui) : f_ui[k] = Report("error", "HSM Error")

\* C19: the clipboard is written at most once in a run, only with a
\* generated passphrase and only after the user has confirmed, and nothing
\* but a generated passphrase is put on screen.
C19_ClipboardOnceAfterConfirmation ==
    /\ Len(clipboard) <= 1
    /\ \A k \in 1..Len(clipboard) :
          clipboard[k].secret = "generated" /\ clipboard[k].confirmed
    /\ \A k \in 1..Len(screen) : screen[k].secret = "generated"

\* ------------------------------------------------------------------------
\* Claims about the passphrase of the HSM
\* ------------------------------------------------------------------------

\* generate_passphrase_from_hsm has a passphrase to return
PassphraseReturned == h_result.returned /\ h_result.passphrase

\* the file has just been read back and still holds what the tool wrote
JustRead == h_pc = "zero"

C18_ShortRead ==
    /\ JustRead
    /\ h_tmp.len = 32
    /\ h_result = ReturnNone
    /\ "HSM random generation failed (unexpected output)" \in h_log

\* ------------------------------------------------------------------------
\* Claims about workers running at the same time
\* ------------------------------------------------------------------------

\* the worker has decrypted into its temp file and has not yet extracted,
\* removed or renamed it
HoldsTemp(w) == c_pc[w] \in {"magic", "extract", "remove", "rename"}

\* C20: two workers never create or delete the same temp path, a worker
\* that has decrypted finds its temp file until it removes or renames it
\* itself, and no worker is ended by a missing temp file.
C20_TempPathsNotShared ==
    \A w \in Workers :
        /\ \A v \in Workers \ {w} : c_touched[w] \cap c_touched[v] = {}
        /\ HoldsTemp(w) => c_disk[temp_decrypted(c_file[w])].exists
        /\ c_exc[w] = "None"

\* ------------------------------------------------------------------------
\* Claims about what an encryption run publishes and what it leaves alone
\* ------------------------------------------------------------------------

\* the run has ended
EncEnded == e_pc \in {"done", "crashed"} /\ e_mode \in {"soft", "hsm"}

\* the run has told the user that the encryption is complete
ReportedComplete ==
    \E k \in 1..Len(e_ui) : e_ui[k].title = Title(e_mode, "Encryption Complete")

\* the run ended after it reported success
RunSucceeded == e_pc = "done" /\ ReportedComplete

\* the name the artifact is to have: the basename of the only input, or
\* encrypted_bundle_ and a timestamp
NamedAfterInput ==
    /\ encrypted_path.set
    /\ encrypted_path.dir = e_paths[1].dir
    /\ encrypted_path.name.prefix =
          IF Len(e_paths) = 1 THEN e_paths[1].base ELSE <<"encrypted_bundle_">>

\* C21: a run that ended successfully has published one whole artifact in
\* the directory of the first input, named after the only input or as a
\* timestamped bundle; a run that ended otherwise has left nothing at the
\* destination.
C21_OneArtifactNamedAfterInput ==
    EncEnded =>
        IF RunSucceeded
        THEN disk["out.age"].exists /\ disk["out.age"].whole /\ NamedAfterInput
        ELSE ~disk["out.age"].exists

\* C22: in a run that was not asked to delete the originals every input
\* path holds what it held when the run began, in every state of the run;
\* the metadata scrub changes the staged copies only.
C22_InputsUntouchedWhenKept ==
    ~delete_originals => \A p \in Sources : orig[p] = OrigInit[p]

\* C22, its case: a run that keeps the originals has scrubbed the staged
\* copy of /home/u/a, encrypted and published, and the original still
\* carries its metadata.
C22_Witness ==
    /\ ~delete_originals
    /\ e_pc = "notify"
    /\ success
    /\ U_a = e_paths[1]
    /\ staging[basename(U_a)].exists
    /\ ~staging[basename(U_a)].data.meta
    /\ orig[U_a].data.meta

\* ------------------------------------------------------------------------
\* Claims about the loop of standalone_decrypt
\* ------------------------------------------------------------------------

\* the run is inside its loop over the files, or between the loop and the
\* final report
InLoop == pc \in {"loop", "list", "extract", "rename", "report"}

\* the run is over after it handled at least one file
EndedAfterFiles == pc \in {"done", "crashed"} /\ success_count + fail_count > 0

\* the reports that follow the loop
FinalReports == {Report("notify", "Done"), Report("error", "Failed")}

\* C23: nothing is shown to the user while the loop over the files runs,
\* and a run that handled at least one file ends with the final report and
\* nothing else on screen.
C23_ReportedOnceAfterLoop ==
    /\ InLoop => ui = << >>
    /\ EndedAfterFiles =>
          /\ ui # << >>
          /\ \A k \in 1..Len(ui) : ui[k] \in FinalReports

\* ------------------------------------------------------------------------
\* Claims about generate_passphrase
\* ------------------------------------------------------------------------

LowerCase ==
    {"a", "b", "c", "d", "e", "f", "g", "h", "i", "j", "k", "l", "m", "n",
     "o", "p", "q", "r", "s", "t", "u", "v", "w", "x", "y", "z"}

\* the pieces of a string between its hyphens, the last one being cur
\* followed by what is left of s
RECURSIVE Pieces(_, _)
Pieces(s, cur) ==
    IF s = << >> THEN <<cur>>
    ELSE IF Head(s) = "-" THEN <<cur>> \o Pieces(Tail(s), << >>)
    ELSE Pieces(Tail(s), Append(cur, Head(s)))

\* the hyphen-separated tokens of a string; the empty string has none
Tokens(s) == IF s = << >> THEN << >> ELSE Pieces(s, << >>)

Corpus == {PASSPHRASE_WORDLIST[k] : k \in 1..Len(PASSPHRASE_WORDLIST)}

\* C24: what generate_passphrase(n) returns is made of exactly n tokens
\* separated by hyphens, each of them a word of the list written in
\* lowercase letters.
C24_PassphraseOfNWords ==
    g_pc = "returned" =>
        LET tokens == Tokens(g_result)
        IN  /\ Len(tokens) = num_words
            /\ \A k \in 1..Len(tokens) :
                  /\ tokens[k] \in Corpus
                  /\ \A c \in 1..Len(tokens[k]) : tokens[k][c] \in LowerCase

\* C24, its case: a passphrase of several words, not all the same, was
\* returned.
C24_Witness ==
    /\ g_pc = "returned"
    /\ num_words >= 2
    /\ g_words[1] # g_words[2]
    /\ Len(g_result) > Len(g_words[1]) + Len(g_words[2])

\* ------------------------------------------------------------------------
\* Claims about validate_path
\* ------------------------------------------------------------------------

\* /bin, /sbin, /usr, /etc, /var, /boot and /root, each as its one component
SystemDirs ==
    {<<"b", "i", "n">>, <<"s", "b", "i", "n">>, <<"u", "s", "r">>,
     <<"e", "t", "c">>, <<"v", "a", "r">>, <<"b", "o", "o", "t">>,
     <<"r", "o", "o", "t">>}

\* the canonical form is one of the system directories or lies beneath one
InSystemDir(parts) == parts # << >> /\ parts[1] \in SystemDirs

C25_LinkIntoSystemDirRefused ==
    /\ v_pc = "returned"
    /\ v_path = [abs |-> TRUE, parts |-> << <<"h", "o", "m", "e">>, Lnk >>]
    /\ v_target = << <<"u", "s", "r">> >>
    /\ ~v_result

\* ------------------------------------------------------------------------
\* Claims about the originals a run deletes
\* ------------------------------------------------------------------------

\* the published archive holds the content the path had when the run began
InPublishedArchive(p) ==
    /\ disk["out.age"].exists
    /\ \E k \in 1..Len(disk["out.age"].data) :
          /\ disk["out.age"].data[k] # NoData
          /\ disk["out.age"].data[k].id = OrigInit[p].data.id

\* C26: the content of every original a run has deleted is held by the
\* encrypted archive the run published.
C26_DeletedOriginalsAreInArchive ==
    \A p \in Sources : Deleted(p) => InPublishedArchive(p)

\* C27: the extraction of an archive is started only after tar -tzf has
\* exited with 0 and every member it listed has passed the test.
C27_ExtractionOnlyAfterListing == extractStarted \subseteq listedOK

\* ------------------------------------------------------------------------
\* Claims about the way the password reaches age
\* ------------------------------------------------------------------------

\* what the parent does between the spawn and the end of the wait
ExpectedTrace(mode) ==
    IF mode = "encrypt"
    THEN <<"close_slave", "sleep", "write", "sleep", "write", "communicate">>
    ELSE <<"close_slave", "sleep", "write", "communicate">>

IsPrefix(s, t) == Len(s) <= Len(t) /\ s = SubSeq(t, 1, Len(s))

\* C28: the password is no argument of the command line; after the spawn the
\* parent closes its slave descriptor, then pauses and writes the password
\* twice to encrypt and once to decrypt, and only then waits for the child.
C28_PasswordOnlyThroughPty ==
    /\ \A k \in 1..Len(argv) : argv[k] \notin Passwords
    /\ inj_mode # "none" => IsPrefix(inj_trace, ExpectedTrace(inj_mode))
    /\ process = "reaped" /\ inj_exc = "none" =>
          inj_trace = ExpectedTrace(inj_mode)

\* C28, its case: encrypt_file has returned True after both writes.
C28_Witness ==
    /\ inj_mode = "encrypt"
    /\ inj_pc = "returned"
    /\ inj_result = "True"
    /\ argv # << >>
    /\ inj_trace = ExpectedTrace("encrypt")

\* ------------------------------------------------------------------------
\* Claims about the failures and successes of a decrypt batch
\* ------------------------------------------------------------------------

\* the attempts recorded for the other files stay as they are
OthersKept(p) ==
    \A q \in AgePaths \ {p} : failed_attempts'[q] = failed_attempts[q]

\* one step of the loop: a failed file gets one more recorded attempt, its
\* temp file is gone and the loop goes on; a decrypted file has its attempts
\* cleared; the attempts of the other files are left alone
OneFileHandled ==
    pc = "loop" =>
        /\ fail_count' = fail_count + 1 =>
              /\ Len(failed_attempts'[paths[i]]) = Len(failed_attempts[paths[i]]) + 1
              /\ OthersKept(paths[i])
              /\ paths[i] \notin tmpfile'
              /\ pc' \in {"loop", "report"}
        /\ success_count' = success_count + 1 =>
              /\ failed_attempts'[paths[i]] = << >>
              /\ OthersKept(paths[i])

\* C29: in every step of the loop of a decrypt batch, a file that fails to
\* decrypt gets exactly one recorded attempt, its hidden temp file no longer
\* exists and the loop goes on to the next file; a file that decrypts has
\* its own recorded attempts cleared and no others.
C29_FailureRecordedTempRemoved == [][OneFileHandled]_vars

\* ------------------------------------------------------------------------
\* Claims about what an encryption run reports
\* ------------------------------------------------------------------------

\* the run has told the user that the encryption failed
ReportedFailed ==
    \E k \in 1..Len(e_ui) : e_ui[k].title = Title(e_mode, "Encryption Failed")

\* C30: a run that reports 'Encryption Failed' has left nothing at the
\* final destination and has deleted no original, and a run that has
\* ended with its artifact published has reported success.
C30_FailureReportMeansNothingDone ==
    /\ ReportedFailed =>
          /\ ~disk["out.age"].exists
          /\ \A p \in Sources : ~Deleted(p)
    /\ EncEnded /\ Published => ReportedComplete

\* ------------------------------------------------------------------------
\* Claims about what the success notification says of the originals
\* ------------------------------------------------------------------------

\* the run has sent its success notification with "(originals deleted)" in it
SaysOriginalsDeleted ==
    \E k \in 1..Len(e_ui) :
        /\ e_ui[k].title = Title(e_mode, "Encryption Complete")
        /\ e_ui[k].deleted

\* C31: when the success notification of an encryption run says that the
\* originals were deleted, no input path of the run is on disk any more.
C31_DeletedMeansEveryInputGone ==
    SaysOriginalsDeleted => \A k \in 1..Len(e_paths) : ~orig[e_paths[k]].exists

\* ------------------------------------------------------------------------
\* Claims about the publish step
\* ------------------------------------------------------------------------

\* C32: the publish step of an encryption run takes the place of no file
\* that was at the final destination path before it, be it an earlier file
\* or the artifact another job published under the same bundle name.
C32_PublishReplacesNothing == replaced = {}

\* ------------------------------------------------------------------------
\* Claims about the inputs that are missing
\* ------------------------------------------------------------------------

\* the positions of the inputs that were missing when the run began
Gone == {k \in 1..Len(e_paths) : ~OrigInit[e_paths[k]].exists}

\* the first of them in input order
FirstGone == e_paths[CHOOSE k \in Gone : \A j \in Gone : k <= j]

\* the confirmed run has left its copy loop
PastCopy == e_password # NoPassword /\ e_pc \notin {"idle", "copy"}

\* C33: when an input of an encryption run is missing, nothing is copied
\* into the staging directory, the error names the first missing path in
\* input order, and neither the archive nor the encryption step is started.
C33_MissingInputStopsRunBeforeCopy ==
    PastCopy /\ Gone # {} =>
        /\ \A b \in BaseSet : ~staging[b].exists
        /\ missing = {FirstGone}
        /\ tar_path = "None" /\ ~tarFile.exists
        /\ ~temp_encrypted.exists /\ ~success

\* ------------------------------------------------------------------------
\* Claims about is_hsm_token_present
\* ------------------------------------------------------------------------

\* the listing failed: the tool could not be started, exceeded its 5 s or
\* exited with a status other than 0
ListingFailed ==
    \/ tok_run.how \in {"timeout", "spawn"}
    \/ tok_run.how = "exit" /\ tok_run.returncode # 0

\* C34: is_hsm_token_present returns False whenever the listing failed, and
\* True only for a listing that exited with 0 and whose output carries
\* 'token present' or 'slot'.
C34_FalseOnEveryFailure ==
    tok_result # "unset" =>
        /\ ListingFailed => tok_result = "False"
        /\ tok_result = "True" =>
              /\ tok_run.how = "exit" /\ tok_run.returncode = 0
              /\ tok_run.token_present \/ tok_run.slot

\* ------------------------------------------------------------------------
\* Claims about a run whose confirmation dialog is not confirmed
\* ------------------------------------------------------------------------

\* C35: when the confirmation dialog of a software or HSM encryption run is
\* cancelled, times out or cannot be shown, there is no staging directory,
\* no archive and no encrypted artifact, and every input path holds what it
\* held before.
C35_UnconfirmedRunTouchesNothing ==
    e_front \in Unconfirmed =>
        /\ e_pc = "done"
        /\ temp_dir = "None" /\ ~stagingDir
        /\ \A b \in BaseSet : ~staging[b].exists
        /\ tar_path = "None" /\ ~tarFile.exists
        /\ ~temp_encrypted.exists /\ ~encrypted_path.set
        /\ ~disk["out.age"].exists
        /\ orig = OrigInit

\* C35, its case: the confirmation dialog of an HSM run on two inputs got
\* no answer within its 300 s and the run has returned.
C35_Witness ==
    /\ e_mode = "hsm"
    /\ e_front = "timeout"
    /\ Len(e_paths) = 2
    /\ e_pc = "done"

\* ------------------------------------------------------------------------
\* Claims about what precedes the password prompt of standalone_decrypt
\* ------------------------------------------------------------------------

\* the run was refused by the rate limiter
ShownRateLimited == \E k \in 1..Len(ui) : ui[k] = Report("error", "Rate Limited")

\* a file of the batch has no age header within its first 100 bytes
SomeHeaderFails == \E k \in 1..Len(paths) : ~verify_age_file(paths[k])

\* C36: when a file of the batch is rate-limited or fails the header
\* verification, standalone_decrypt shows no password prompt, starts the
\* decryption tool for no file and changes no recorded attempt.
C36_NothingStartedForRefusedBatch ==
    pc # "idle" /\ (ShownRateLimited \/ SomeHeaderFails) =>
        /\ asked = 0
        /\ password = NoPassword
        /\ started = {}
        /\ failed_attempts = [p \in AgePaths |-> << >>]
        /\ recorded = [p \in AgePaths |-> << >>]
        /\ tmpfile = {} /\ written = {}
        /\ pc = "done"

\* C36, its case: the second file of a batch has its marker too late, the
\* first is valid, and the run has ended with the list of invalid files.
C36_Witness ==
    /\ paths = <<"doc.age", "late.age">>
    /\ pc = "done"
    /\ ui = <<Report("error", "Invalid files")>>
    /\ asked = 0

\* ------------------------------------------------------------------------
\* Claims about the counts a decrypt run reports
\* ------------------------------------------------------------------------

\* the run has left its loop and made its final report
Reported == pc = "done" /\ password # NoPassword

\* C37: the success count a decrypt run reports is the number of files
\* whose plaintext was delivered, renamed to its final name or extracted
\* whole from its archive, and the success count and the failure count
\* add up to the number of files of the batch.
C37_SuccessCountIsDeliveredCount ==
    Reported =>
        /\ success_count = delivered
        /\ success_count + fail_count = Len(paths)

\* ------------------------------------------------------------------------
\* Claims about clean_metadata
\* ------------------------------------------------------------------------

\* mat2 ended in a way the call takes for a failure
ScrubFailed ==
    \/ cm_run.how \in {"timeout", "missing"}
    \/ cm_run.how = "exit" /\ cm_run.returncode \notin {0, 1}

C38_UnsupportedReturned ==
    /\ cm_pc = "returned"
    /\ cm_run = Mat2Run("exit", 1)
    /\ cm_temp.exists /\ cm_temp.suffix = <<".", "t", "x", "t">>
    /\ cm_result.path = "temp_path"

\* ------------------------------------------------------------------------
\* Claims about the metadata pass of an encryption run
\* ------------------------------------------------------------------------

\* the staged names on which mat2 exited with 0 or 1
ExitedZeroOrOne ==
    {b \in BaseSet : \E k \in 1..Len(scrubs[b]) :
                        scrubs[b][k] \in {"cleaned", "unsupported"}}

\* every staged file was given to mat2 at most once, and past the metadata
\* pass cleaned_count is the number of files mat2 exited with 0 or 1 on
ScrubCounted ==
    /\ \A b \in BaseSet : Len(scrubs[b]) <= 1
    /\ e_password # NoPassword /\ e_pc \notin {"idle", "copy", "scrub", "except",
                                               "finally", "done", "crashed"}
          => cleaned_count = Cardinality(ExitedZeroOrOne)
    /\ ~clean_metadata => \A b \in BaseSet : scrubs[b] = << >>

\* the metadata pass is followed by the archive step, whatever mat2 did
ScrubGoesOn == e_pc = "scrub" => e_pc' = "tar" /\ e_exc' = "none"

C40_ReportedWaitPositive ==
    rl_last.called /\ ~rl_last.allowed =>
        /\ rl_last.shown > 0
        /\ rl_last.shown <= RATE_LIMIT_LOCKOUT_SECONDS

=============================================================================
